---- MODULE Spec2Model ----
(***************************************************************************)
(* Mir-Us: the entity store built by MiRLoad (miBase.py) and the query     *)
(* engine of MiRBase (get_precursor, get_mirna, find_cluster).             *)
(*                                                                         *)
(* Representation.                                                         *)
(*  - A Python dict whose iteration order matters is a record              *)
(*    [keys |-> sequence of keys in insertion order, at |-> function].     *)
(*  - Precursor and MiRNA objects are records; an object is identified by  *)
(*    the key it is stored under (each object is stored under one key), so *)
(*    result lists are sequences of identifiers and `is` is equality of    *)
(*    identifiers.                                                         *)
(*  - miBase.py reads and writes the MiRNA fields as precursors, name,     *)
(*    chromosome, strand, genome_coordinates and the Precursor identifier  *)
(*    as ID; miObject.py declares them precursor, mature_name,             *)
(*    chromosome_mi, strand_mi, genome_coordinates_mi and precursor_ID.    *)
(*    The model uses the names of miBase.py for the same fields.           *)
(*  - The `ref` list of a record is one Python object shared by the        *)
(*    Precursor and by every MiRNA created from that record: ref_heap is   *)
(*    the sequence of these list objects and `references` is an index.     *)
(*  - A display name "hsa-mir-1" is the pair <<"hsa", "mir-1">> so that    *)
(*    name.split("-")[0] is its first component; a mature name is the pair *)
(*    <<stem, arm>> with arm in {"5p", "3p", ""}.                          *)
(*  - A decimal string argument (start, end, range) is <<>> when it is the *)
(*    empty string and <<n>> when it parses to the integer n; genome       *)
(*    coordinates, always decimal in a gff3 file, are integers.            *)
(***************************************************************************)
EXTENDS Integers, Sequences, FiniteSets, TLC

\* ------------------------------------------------------------------------
\* Bounds
\* ------------------------------------------------------------------------
MaxCoord == 3

MaxRange == 2

MaxRecords == 2

MaxLines == 3

MaxPath == 3

MaxProducts == 2

\* ------------------------------------------------------------------------
\* Generic helpers
\* ------------------------------------------------------------------------
EmptyMap == [x \in {} |-> x]

EmptyDict == [keys |-> <<>>, at |-> EmptyMap]

Range(s) == {s[i] : i \in DOMAIN s}

InSeq(x, s) == \E i \in DOMAIN s : s[i] = x

\* d[k] = v on a Python dict: a new key goes last, an old key keeps its place
DictSet(d, k, v) ==
    IF k \in DOMAIN d.at
    THEN [d EXCEPT !.at = [d.at EXCEPT ![k] = v]]
    ELSE [keys |-> Append(d.keys, k), at |-> (k :> v) @@ d.at]

\* an assignment that does not take place
MapSet_lost(m, k, v) == m

\* m[k] = v on a Python dict whose order is never observed
MapSet(m, k, v) == (k :> v) @@ m

RECURSIVE SumLen(_)
SumLen(ss) == IF ss = <<>> THEN 0 ELSE Len(Head(ss)) + SumLen(Tail(ss))

\* ------------------------------------------------------------------------
\* miObject.py
\* ------------------------------------------------------------------------
Precursor(id, name, seq, org, ref, mirnas) ==
    [ID |-> id, name |-> name, sequence |-> seq, structure |-> "",
     chromosome |-> <<>>, genome_coordinates |-> <<>>, strand |-> <<>>,
     references |-> ref, organism |-> org, taxonomy |-> <<>>,
     miRNAs |-> mirnas, high_confidence |-> FALSE]

MiRNA(prec, id, name, org, pos, evi, exp, end, ref) ==
    [precursors |-> prec, name |-> name, ID |-> id, organism |-> org,
     mature_sequence |-> <<>>, mature_positions |-> <<pos>>,
     evidence |-> evi, experiment |-> exp, end |-> end,
     chromosome |-> <<>>, genome_coordinates |-> EmptyDict, strand |-> <<>>,
     references |-> ref]

\* prec_seq[int(pos[0]) - 1:int(pos[1])] for 1 <= pos[0]
PySlice(s, a, b) ==
    LET hi == IF b < Len(s) THEN b ELSE Len(s)
    IN  IF a > hi THEN <<>> ELSE SubSeq(s, a, hi)

\* get_mature_seq that keeps a sequence it already holds out of the list
get_mature_seq_new(m, prec_seq, pos) ==
    IF InSeq(PySlice(prec_seq, pos[1], pos[2]), m.mature_sequence) THEN m
    ELSE [m EXCEPT !.mature_sequence = Append(@, PySlice(prec_seq, pos[1], pos[2]))]

get_mature_seq(m, prec_seq, pos) ==
    [m EXCEPT !.mature_sequence = Append(@, PySlice(prec_seq, pos[1], pos[2]))]

\* ------------------------------------------------------------------------
\* MiRLoad.load_miRNA, from the completed record on (the values read from
\* the ID, AC, RX, FT and SQ lines are the fields of rec)
\* ------------------------------------------------------------------------
\* ''.join(map(str, ref)), used by the source only when len(ref) <= 1
JoinRef(ref) == IF ref = <<>> THEN "" ELSE ref[1]

ArmEnd(name_mat) ==
    IF name_mat[2] = "5p" THEN "5p" ELSE IF name_mat[2] = "3p" THEN "3p" ELSE "-"

\* one iteration of `for miRNA_vals in products`
load_product(st, v, id_p, full_name, seq_full, k) ==
    LET e   == ArmEnd(v.name)
        ref == st.ref_heap[k]
    IN  IF v.ac \notin DOMAIN st.miRNAs_ID.at
        THEN LET mature == get_mature_seq(
                               MiRNA(<<id_p>>, <<v.ac>>, <<v.name>>, full_name,
                                     <<v.start, v.end>>, <<v.ev>>, <<v.ex>>, <<e>>, k),
                               seq_full, <<v.start, v.end>>)
             IN  [st EXCEPT !.miRNAs_ID = DictSet(@, v.ac, mature),
                            !.matures_name = MapSet(@, v.name, v.ac)]
        ELSE LET m0 == st.miRNAs_ID.at[v.ac]
                 m1 == [m0 EXCEPT
                          !.precursors = Append(@, id_p),
                          !.name = IF InSeq(v.name, @) THEN @ ELSE Append(@, v.name),
                          !.mature_positions = Append(@, <<v.start, v.end>>),
                          !.evidence = Append(@, v.ev),
                          !.experiment = Append(@, v.ex),
                          !.end = Append(@, e)]
                 m2 == get_mature_seq(m1, seq_full, <<v.start, v.end>>)
                 heap == IF Len(ref) > 1
                         THEN st.ref_heap
                         ELSE IF InSeq(JoinRef(ref), st.ref_heap[m0.references])
                              THEN st.ref_heap
                              ELSE [st.ref_heap EXCEPT ![m0.references] =
                                        Append(@, JoinRef(ref))]
             IN  [st EXCEPT !.miRNAs_ID = DictSet(@, v.ac, m2),
                            !.ref_heap = heap]

RECURSIVE load_products(_, _, _, _, _, _)
load_products(st, products, id_p, full_name, seq_full, k) ==
    IF products = <<>> THEN st
    ELSE load_products(load_product(st, Head(products), id_p, full_name, seq_full, k),
                       Tail(products), id_p, full_name, seq_full, k)

\* AppendNew that leaves the list of a known precursor as it was
AppendNew_skip(lst, ms) == lst

RECURSIVE AppendNew(_, _)
AppendNew(lst, ms) ==
    IF ms = <<>> THEN lst
    ELSE AppendNew(IF InSeq(Head(ms), lst) THEN lst ELSE Append(lst, Head(ms)), Tail(ms))

\* the record is processed only when its organism prefix is known
\* (self._org_sh[org] raises KeyError otherwise and the compile stops)
RecordLoadable(st, rec) == rec.name_p[1] \in DOMAIN st.org_sh.at

load_record(st, rec) ==
    LET full_name == st.org_sh.at[rec.name_p[1]]
        k     == Len(st.ref_heap) + 1
        st0   == [st EXCEPT !.ref_heap = Append(@, rec.ref)]
        m_ids == [i \in DOMAIN rec.products |-> rec.products[i].ac]
        st1   == IF rec.id_p \notin DOMAIN st0.precursors_ID.at
                 THEN [st0 EXCEPT
                         !.precursors_ID = DictSet(@, rec.id_p,
                              Precursor(rec.id_p, rec.name_p, rec.seq_full, full_name, k, m_ids)),
                         !.precursors_name = MapSet(@, rec.name_p, rec.id_p)]
                 ELSE [st0 EXCEPT
                         !.precursors_ID.at[rec.id_p].miRNAs = AppendNew(@, m_ids)]
    IN  load_products(st1, rec.products, rec.id_p, full_name, rec.seq_full, k)

RECURSIVE load_miRNA(_, _)
load_miRNA(st, recs) ==
    IF recs = <<>> THEN st
    ELSE load_miRNA(load_record(st, Head(recs)), Tail(recs))

\* ------------------------------------------------------------------------
\* MiRLoad.load_organisms: one line of organisms.txt is the record
\* [organism, division, name, tree, taxid]; tree is the sequence of the
\* tokens of the taxonomy path, the separator ";" being a token
\* ------------------------------------------------------------------------
RECURSIVE load_organisms(_, _)
load_organisms(st, lines) ==
    IF lines = <<>> THEN st
    ELSE LET tmp == Head(lines)
         IN  load_organisms(
                 [st EXCEPT !.org_sh = DictSet(@, tmp.organism, tmp.name),
                            !.organisms = Append(@, tmp)],
                 Tail(lines))

\* ------------------------------------------------------------------------
\* MiRLoad.load_genome: a feature line is [chr, type, start, end, strand,
\* attrs] with attrs the sequence of <<key, value>> pairs of column 9
\* ------------------------------------------------------------------------
\* the line has the Alias attribute: split_info_miRNA[1].split('=')[1] is
\* read outside the try blocks and raises IndexError otherwise
FeatureParsable(f) == Len(f.attrs) >= 2

\* load_feature on a MiRNA whose genome_coordinates is a plain dict (the
\* commented-out initialisation): a new derivative raises KeyError after the
\* chromosome and the strand have been appended
load_feature_plain_dict(st, f) ==
    LET sim_Alias == f.attrs[2][2]
    IN  IF f.type = "miRNA_primary_transcript"
        THEN IF sim_Alias \in DOMAIN st.precursors_ID.at
             THEN [st EXCEPT !.precursors_ID.at[sim_Alias] =
                      [@ EXCEPT !.chromosome = Append(@, f.chr),
                                !.strand = Append(@, f.strand),
                                !.genome_coordinates = Append(@, <<f.start, f.end>>)]]
             ELSE st
        ELSE IF f.type = "miRNA"
        THEN IF Len(f.attrs) >= 4 /\ sim_Alias \in DOMAIN st.miRNAs_ID.at
             THEN LET derivative == f.attrs[4][2]
                      gc  == st.miRNAs_ID.at[sim_Alias].genome_coordinates
                  IN  [st EXCEPT !.miRNAs_ID.at[sim_Alias] =
                         [@ EXCEPT !.chromosome = Append(@, f.chr),
                                   !.strand = Append(@, f.strand),
                                   !.genome_coordinates =
                                       IF derivative \in DOMAIN gc.at
                                       THEN DictSet(gc, derivative,
                                                Append(gc.at[derivative], <<f.start, f.end>>))
                                       ELSE gc]]
             ELSE st
        ELSE st

load_feature(st, f) ==
    LET sim_Alias == f.attrs[2][2]
    IN  IF f.type = "miRNA_primary_transcript"
        THEN IF sim_Alias \in DOMAIN st.precursors_ID.at
             THEN [st EXCEPT !.precursors_ID.at[sim_Alias] =
                      [@ EXCEPT !.chromosome = Append(@, f.chr),
                                !.strand = Append(@, f.strand),
                                !.genome_coordinates = Append(@, <<f.start, f.end>>)]]
             ELSE st
        ELSE IF f.type = "miRNA"
        THEN IF Len(f.attrs) >= 4 /\ sim_Alias \in DOMAIN st.miRNAs_ID.at
             THEN LET derivative == f.attrs[4][2]
                      gc  == st.miRNAs_ID.at[sim_Alias].genome_coordinates
                      old == IF derivative \in DOMAIN gc.at THEN gc.at[derivative] ELSE <<>>
                  IN  [st EXCEPT !.miRNAs_ID.at[sim_Alias] =
                         [@ EXCEPT !.chromosome = Append(@, f.chr),
                                   !.strand = Append(@, f.strand),
                                   !.genome_coordinates =
                                       DictSet(gc, derivative, Append(old, <<f.start, f.end>>))]]
             ELSE st
        ELSE st

RECURSIVE load_genome_file(_, _)
load_genome_file(st, file2) ==
    IF file2 = <<>> THEN st
    ELSE load_genome_file(load_feature(st, Head(file2)), Tail(file2))

\* genomes maps an organism code to its gff3 file; a code without a file is
\* an organism whose urlopen fails
RECURSIVE load_genome_orgs(_, _, _)
load_genome_orgs(st, orgs, genomes) ==
    IF orgs = <<>> THEN st
    ELSE load_genome_orgs(
             IF Head(orgs) \in DOMAIN genomes
             THEN load_genome_file(st, genomes[Head(orgs)])
             ELSE st,
             Tail(orgs), genomes)

load_genome(st, genomes) == load_genome_orgs(st, st.org_sh.keys, genomes)

\* ------------------------------------------------------------------------
\* MiRBase._merge_data
\* ------------------------------------------------------------------------
RECURSIVE RStrip(_)
RStrip(toks) ==
    IF toks # <<>> /\ toks[Len(toks)] = ";"
    THEN RStrip(SubSeq(toks, 1, Len(toks) - 1))
    ELSE toks

\* str.split(";"): cur is the segment read so far
RECURSIVE SplitFrom(_, _)
SplitFrom(toks, cur) ==
    IF toks = <<>> THEN <<cur>>
    ELSE IF Head(toks) = ";" THEN <<cur>> \o SplitFrom(Tail(toks), "")
    ELSE SplitFrom(Tail(toks), Head(toks))

Split(toks) == SplitFrom(toks, "")

\* dict(zip(organism_codes, tax_codes)): a later organism of the same name wins
RECURSIVE ZipTax(_, _)
ZipTax(orgs, m) ==
    IF orgs = <<>> THEN m
    ELSE ZipTax(Tail(orgs), MapSet(m, Head(orgs).name, Split(RStrip(Head(orgs).tree))))

make_tax_dict(st) == ZipTax(st.organisms, EmptyMap)

\* the merge raises KeyError, and construction fails, unless this holds
MergeOk(st) ==
    /\ \A i \in DOMAIN st.high_conf : st.high_conf[i] \in DOMAIN st.precursors_ID.at
    /\ \A p \in DOMAIN st.precursors_ID.at : p \in DOMAIN st.structures
    /\ \A p \in DOMAIN st.precursors_ID.at :
           st.precursors_ID.at[p].organism \in DOMAIN make_tax_dict(st)

\* merge_data without the MERGE STRUCTURES loop
merge_data_no_structures(st) ==
    LET tax_dct == make_tax_dict(st)
    IN  [st EXCEPT !.precursors_ID.at =
            [p \in DOMAIN st.precursors_ID.at |->
                [st.precursors_ID.at[p] EXCEPT
                    !.high_confidence = IF InSeq(p, st.high_conf) THEN TRUE ELSE @,
                    !.taxonomy = tax_dct[st.precursors_ID.at[p].organism]]]]

merge_data(st) ==
    LET tax_dct == make_tax_dict(st)
    IN  [st EXCEPT !.precursors_ID.at =
            [p \in DOMAIN st.precursors_ID.at |->
                [st.precursors_ID.at[p] EXCEPT
                    !.high_confidence = IF InSeq(p, st.high_conf) THEN TRUE ELSE @,
                    !.structure = st.structures[p],
                    !.taxonomy = tax_dct[st.precursors_ID.at[p].organism]]]]

\* the facade's fields after MiRBase.__init__ has initialised them
EmptyStore ==
    [organisms |-> <<>>, org_sh |-> EmptyDict,
     precursors_ID |-> EmptyDict, precursors_name |-> EmptyMap,
     miRNAs_ID |-> EmptyDict, matures_name |-> EmptyMap,
     high_conf |-> <<>>, structures |-> EmptyMap, ref_heap |-> <<>>,
     taxonomy_of_prec |-> EmptyDict, organisms_of_prec |-> EmptyDict]

\* ------------------------------------------------------------------------
\* MiRLoad.load_hc, load_structures, load_taxonomy: each returns the store
\* it leaves and whether it returned (ok) or raised
\* ------------------------------------------------------------------------
\* d[k].append(v) on a defaultdict(list)
DictAppend(d, k, v) ==
    DictSet(d, k, Append(IF k \in DOMAIN d.at THEN d.at[k] ELSE <<>>, v))

\* the second token of each header line of the high-confidence file
RECURSIVE load_hc(_, _)
load_hc(st, ids) ==
    IF ids = <<>> THEN [st |-> st, ok |-> TRUE]
    ELSE IF Head(ids) \notin DOMAIN st.precursors_ID.at THEN [st |-> st, ok |-> FALSE]
    ELSE load_hc([st EXCEPT !.precursors_ID.at[Head(ids)].high_confidence = TRUE,
                            !.high_conf = Append(@, Head(ids))],
                 Tail(ids))

\* a block of miRNA.str is [name, dot]: the precursor name of its header
\* and the dot-bracket string all_dt_seq computed from its lines
RECURSIVE load_structures(_, _)
load_structures(st, blocks) ==
    IF blocks = <<>> THEN [st |-> st, ok |-> TRUE]
    ELSE IF Head(blocks).name \notin DOMAIN st.precursors_name THEN [st |-> st, ok |-> FALSE]
    ELSE load_structures(
             [st EXCEPT !.structures =
                 MapSet(@, st.precursors_name[Head(blocks).name], Head(blocks).dot)],
             Tail(blocks))

\* the loop over tax_name of load_taxonomy
RECURSIVE AddLevels(_, _, _)
AddLevels(d, tax_name, p_id) ==
    IF tax_name = <<>> THEN d
    ELSE AddLevels(IF Head(tax_name) \in DOMAIN d.at /\ InSeq(p_id, d.at[Head(tax_name)])
                   THEN d ELSE DictAppend(d, Head(tax_name), p_id),
                   Tail(tax_name), p_id)

\* tax_dct[p_org].split(';')[:-1], tax_dct keeping the last organism of a name
RECURSIVE load_taxonomy_from(_, _)
load_taxonomy_from(st, keys) ==
    IF keys = <<>> THEN [st |-> st, ok |-> TRUE]
    ELSE LET prec == st.precursors_ID.at[Head(keys)]
             orgs == {i \in DOMAIN st.organisms : st.organisms[i].name = prec.organism}
             st1  == [st EXCEPT !.organisms_of_prec = DictAppend(@, prec.organism, prec.ID)]
         IN  IF orgs = {} THEN [st |-> st1, ok |-> FALSE]
             ELSE LET i == CHOOSE j \in orgs : \A k \in orgs : k <= j
                      parts == Split(st.organisms[i].tree)
                      tax_name == SubSeq(parts, 1, Len(parts) - 1)
                  IN  load_taxonomy_from(
                          [st1 EXCEPT !.precursors_ID.at[Head(keys)].taxonomy = tax_name,
                                      !.taxonomy_of_prec = AddLevels(@, tax_name, prec.ID)],
                          Tail(keys))

load_taxonomy(st) == load_taxonomy_from(st, st.precursors_ID.keys)

\* ------------------------------------------------------------------------
\* MiRBase._compile_indexes and _load_all_data. The snapshot is a record
\* [files, at]: the .mir files that exist and what each holds; a file is
\* named after the field it stores. The remote database r is the record
\* [organisms, records, genomes, has_hc, hc, str] of the parsers' inputs;
\* has_hc is FALSE for a version whose "high_conf" entry is None. The
\* pickle of precursors_ID carries the reference lists of its objects.
\* ------------------------------------------------------------------------
EmptyDisk == [files |-> {}, at |-> EmptyStore]

Dump(disk, st, fs) ==
    [files |-> disk.files \cup fs,
     at |-> [f \in DOMAIN disk.at |->
                IF f \in fs \/ (f = "ref_heap" /\ "precursors_ID" \in fs)
                THEN st[f] ELSE disk.at[f]]]

compile_organisms(m, r) ==
    LET st == load_organisms(m.st, r.organisms)
    IN  [st |-> st, disk |-> Dump(m.disk, st, {"organisms", "org_sh"}), ok |-> TRUE]

compile_miRNA(m, r) ==
    LET st == load_genome(load_miRNA(m.st, r.records), r.genomes)
    IN  [st |-> st, ok |-> TRUE,
         disk |-> Dump(m.disk, st, {"precursors_ID", "precursors_name",
                                    "miRNAs_ID", "matures_name"})]

\* try: load_hc, dump; except: pass
compile_hc(m, r) ==
    IF ~r.has_hc THEN m
    ELSE LET h == load_hc(m.st, r.hc)
         IN  [st |-> h.st, ok |-> TRUE,
              disk |-> IF h.ok THEN Dump(m.disk, h.st, {"high_conf"}) ELSE m.disk]

compile_structures(m, r) ==
    LET h == load_structures(m.st, r.str)
    IN  [st |-> h.st, ok |-> h.ok,
         disk |-> IF h.ok THEN Dump(m.disk, h.st, {"structures"}) ELSE m.disk]

compile_taxonomy(m) ==
    LET h == load_taxonomy(m.st)
    IN  [st |-> h.st, ok |-> h.ok,
         disk |-> IF h.ok THEN Dump(m.disk, h.st, {"taxonomy_of_prec", "organisms_of_prec"})
                  ELSE m.disk]

\* the files in the order _load_all_data opens them
LoadOrder(has_hc) ==
    <<"organisms", "precursors_ID", "precursors_name", "miRNAs_ID", "matures_name", "org_sh">>
    \o (IF has_hc THEN <<"high_conf">> ELSE <<>>)
    \o <<"structures", "taxonomy_of_prec", "organisms_of_prec">>

\* the dill.load statements up to the first file that does not exist
RECURSIVE load_files(_, _, _)
load_files(st, disk, order) ==
    IF order = <<>> THEN [st |-> st, ok |-> TRUE]
    ELSE IF Head(order) \notin disk.files THEN [st |-> st, ok |-> FALSE]
    ELSE load_files(
             [f \in DOMAIN st |->
                 IF f = Head(order) \/ (f = "ref_heap" /\ Head(order) = "precursors_ID")
                 THEN disk.at[f] ELSE st[f]],
             disk, Tail(order))

\* _merge_data up to the KeyError it raises when MergeOk does not hold
merge_raises(st) ==
    LET hc   == st.high_conf
        keys == st.precursors_ID.keys
        tax  == make_tax_dict(st)
        n1 == CHOOSE n \in 0..Len(hc) :
                  /\ \A i \in 1..n : hc[i] \in DOMAIN st.precursors_ID.at
                  /\ n < Len(hc) => hc[n + 1] \notin DOMAIN st.precursors_ID.at
        n2 == IF n1 < Len(hc) THEN 0
              ELSE CHOOSE n \in 0..Len(keys) :
                  /\ \A i \in 1..n : keys[i] \in DOMAIN st.structures
                  /\ n < Len(keys) => keys[n + 1] \notin DOMAIN st.structures
        n3 == IF n2 < Len(keys) THEN 0
              ELSE CHOOSE n \in 0..Len(keys) :
                  /\ \A i \in 1..n : st.precursors_ID.at[keys[i]].organism \in DOMAIN tax
                  /\ n < Len(keys) =>
                         st.precursors_ID.at[keys[n + 1]].organism \notin DOMAIN tax
        Pos(p) == CHOOSE i \in DOMAIN keys : keys[i] = p
    IN  [st EXCEPT !.precursors_ID.at =
            [p \in DOMAIN st.precursors_ID.at |->
                [st.precursors_ID.at[p] EXCEPT
                    !.high_confidence =
                        IF \E i \in 1..n1 : hc[i] = p THEN TRUE ELSE @,
                    !.structure = IF Pos(p) <= n2 THEN st.structures[p] ELSE @,
                    !.taxonomy = IF Pos(p) <= n3
                                 THEN tax[st.precursors_ID.at[p].organism] ELSE @]]]

\* ------------------------------------------------------------------------
\* utils.py
\* ------------------------------------------------------------------------
\* _exists(to_compare, obj): True when obj is an element, None otherwise
_exists(to_compare, obj) == InSeq(obj, to_compare)

\* utils._check_strand is called by miBase.py and is not defined in utils.py;
\* the message printed at its call sites is "'strand' can only be '+' or '-'"
_check_strand(strand) == strand \in {"+", "-"}

\* ------------------------------------------------------------------------
\* MiRBase.get_precursor / MiRBase.get_mirna
\* ------------------------------------------------------------------------
\* for res in result: if res passes and not _exists(temp_result, res):
\*     temp_result.append(res)
RECURSIVE KeepIn(_, _, _)
KeepIn(result, passing, temp_result) ==
    IF result = <<>> THEN temp_result
    ELSE KeepIn(Tail(result), passing,
                IF Head(result) \in passing /\ ~_exists(temp_result, Head(result))
                THEN Append(temp_result, Head(result))
                ELSE temp_result)

\* the coordinates `for coord in ...` visits: the list of a Precursor, the
\* lists of every key of the map of a MiRNA
RECURSIVE FlatCoords(_, _)
FlatCoords(keys, at) ==
    IF keys = <<>> THEN <<>> ELSE at[Head(keys)] \o FlatCoords(Tail(keys), at)

PrecView(st) ==
    [keys |-> st.precursors_ID.keys,
     at |-> [p \in DOMAIN st.precursors_ID.at |->
               [organism |-> st.precursors_ID.at[p].organism,
                chromosome |-> st.precursors_ID.at[p].chromosome,
                strand |-> st.precursors_ID.at[p].strand,
                coords |-> st.precursors_ID.at[p].genome_coordinates]]]

MirnaView(st) ==
    [keys |-> st.miRNAs_ID.keys,
     at |-> [m \in DOMAIN st.miRNAs_ID.at |->
               [organism |-> st.miRNAs_ID.at[m].organism,
                chromosome |-> st.miRNAs_ID.at[m].chromosome,
                strand |-> st.miRNAs_ID.at[m].strand,
                coords |-> FlatCoords(st.miRNAs_ID.at[m].genome_coordinates.keys,
                                      st.miRNAs_ID.at[m].genome_coordinates.at)]]]

\* InInterval with the start test closed at the window's end
InInterval_closed(int_start, int_end, coord) ==
    (int_start <= coord[1] /\ coord[1] <= int_end) /\ (int_start < coord[2] /\ coord[2] <= int_end)

\* InInterval as an overlap test on the start coordinate alone
InInterval_overlap(int_start, int_end, coord) ==
    int_start <= coord[1] /\ coord[1] < int_end

InInterval(int_start, int_end, coord) ==
    (int_start <= coord[1] /\ coord[1] < int_end) /\ (int_start < coord[2] /\ coord[2] <= int_end)

FromStart(int_start, coord) == int_start <= coord[1]

UpToEnd(int_end, coord) == int_end >= coord[2]

ChainActive(a) ==
    (a.organism_name # "" /\ a.chr # "") \/ (a.organism_name # "" /\ a.strand # "")

\* the `if organism_name and chr or organism_name and strand:` block; the
\* organism step always runs and clears `first`, so every later step takes
\* its `elif not first` branch.  The value is [aborted, result].
genomic_chain(v, a) ==
    LET ids == DOMAIN v.at
        r_org == KeepIn(v.keys, {x \in ids : v.at[x].organism = a.organism_name}, <<>>)
        r_chr == IF a.chr # ""
                 THEN KeepIn(r_org, {x \in ids : InSeq(a.chr, v.at[x].chromosome)}, <<>>)
                 ELSE r_org
        bad_strand == a.strand # "" /\ ~_check_strand(a.strand)
        r_str == IF a.strand # ""
                 THEN KeepIn(r_chr, {x \in ids : InSeq(a.strand, v.at[x].strand)}, <<>>)
                 ELSE r_chr
        both  == a.start # <<>> /\ a.end # <<>>
        bad_both == both /\ (a.start[1] < 0 \/ a.end[1] < 0 \/ ~(a.start[1] < a.end[1]))
        r_both == IF both
                  THEN KeepIn(r_str, {x \in ids : \E i \in DOMAIN v.at[x].coords :
                                          InInterval(a.start[1], a.end[1], v.at[x].coords[i])}, <<>>)
                  ELSE r_str
        only_s == a.end = <<>> /\ a.start # <<>>
        bad_s == only_s /\ a.start[1] < 0
        r_s   == IF only_s
                 THEN KeepIn(r_both, {x \in ids : \E i \in DOMAIN v.at[x].coords :
                                          FromStart(a.start[1], v.at[x].coords[i])}, <<>>)
                 ELSE r_both
        only_e == a.start = <<>> /\ a.end # <<>>
        bad_e == only_e /\ a.end[1] < 0
        r_e   == IF only_e
                 THEN KeepIn(r_s, {x \in ids : \E i \in DOMAIN v.at[x].coords :
                                          UpToEnd(a.end[1], v.at[x].coords[i])}, <<>>)
                 ELSE r_s
    IN  IF bad_strand \/ bad_both \/ bad_s \/ bad_e
        THEN [aborted |-> TRUE, result |-> <<>>]
        ELSE [aborted |-> FALSE, result |-> r_e]

\* `for x in <dict>: if x passes and not _exists(result, x): result.append(x)`
Scan(v, passing) == KeepIn(v.keys, passing, <<>>)

\* [self._precursor_retrieve(i, result) for i in prec_id if ... is not None]:
\* inside the comprehension `result` is still the empty list
RECURSIVE retrieve_all(_, _)
retrieve_all(known, id_list) ==
    IF id_list = <<>> THEN <<>>
    ELSE (IF Head(id_list) \in known /\ ~_exists(<<>>, Head(id_list))
          THEN <<Head(id_list)>> ELSE <<>>) \o retrieve_all(known, Tail(id_list))

\* get_precursor, mirna_id-search: `prec` is an identifier and `result`
\* holds objects, so _exists(result, prec) never finds it
RECURSIVE precursors_of(_, _)
precursors_of(st, mirna_id) ==
    IF mirna_id = <<>> THEN <<>>
    ELSE (IF Head(mirna_id) \in DOMAIN st.miRNAs_ID.at
          THEN st.miRNAs_ID.at[Head(mirna_id)].precursors ELSE <<>>)
         \o precursors_of(st, Tail(mirna_id))

\* get_mirna, prec_id-search: the same with the roles exchanged
RECURSIVE mirnas_of(_, _)
mirnas_of(st, prec_id) ==
    IF prec_id = <<>> THEN <<>>
    ELSE (IF Head(prec_id) \in DOMAIN st.precursors_ID.at
          THEN st.precursors_ID.at[Head(prec_id)].miRNAs ELSE <<>>)
         \o mirnas_of(st, Tail(prec_id))

\* get_mirna, tax-search
RECURSIVE mirnas_of_tax(_, _, _, _)
mirnas_of_tax(st, precs, tax_level, result) ==
    IF precs = <<>> THEN result
    ELSE LET p == st.precursors_ID.at[Head(precs)]
         IN  mirnas_of_tax(st, Tail(precs), tax_level,
                 IF InSeq(tax_level, p.taxonomy)
                 THEN AppendNew(result, p.miRNAs)
                 ELSE result)

Bucket(cond, key, result) == IF cond THEN << <<key, result>> >> ELSE <<>>

\* dict_result as it stands when the function reaches a return statement, in
\* the order in which the source fills it; aborted is TRUE when that return
\* is one of the `return None` of the strand and coordinate checks
precursor_buckets(st, a) ==
    LET v == PrecView(st)
        ids == DOMAIN v.at
        chain == IF ChainActive(a) THEN genomic_chain(v, a)
                 ELSE [aborted |-> FALSE, result |-> <<>>]
        lone(x) == a.start = <<>> /\ a.end = <<>> /\ x
        do_strand == lone(a.organism_name = "" /\ a.chr = "" /\ a.strand # "")
    IN  [aborted |-> chain.aborted \/ (do_strand /\ ~_check_strand(a.strand)),
         buckets |->
            IF chain.aborted THEN <<>> ELSE
            Bucket(ChainActive(a), "genomic-search", chain.result)
         \o Bucket(a.prec_id # <<>>, "prec_id-serch", retrieve_all(ids, a.prec_id))
         \o Bucket(a.mirna_id # <<>>, "mirna_id-search", precursors_of(st, a.mirna_id))
         \o Bucket(a.name # <<>>, "name-search",
                   IF a.name \in DOMAIN st.precursors_name
                   THEN <<st.precursors_name[a.name]>> ELSE <<>>)
         \o Bucket(lone(a.chr = "" /\ a.strand = "" /\ a.organism_name # ""), "organism-search",
                   Scan(v, {x \in ids : v.at[x].organism = a.organism_name}))
         \o Bucket(a.tax_level # "", "tax-search",
                   Scan(v, {x \in ids : InSeq(a.tax_level, st.precursors_ID.at[x].taxonomy)}))
         \o Bucket(lone(a.organism_name = "" /\ a.strand = "" /\ a.chr # ""), "chr-search",
                   Scan(v, {x \in ids : InSeq(a.chr, v.at[x].chromosome)}))
         \o Bucket(do_strand /\ _check_strand(a.strand), "strand-search",
                   Scan(v, {x \in ids : InSeq(a.strand, v.at[x].strand)}))]

mirna_buckets(st, a) ==
    LET v == MirnaView(st)
        ids == DOMAIN v.at
        chain == IF ChainActive(a) THEN genomic_chain(v, a)
                 ELSE [aborted |-> FALSE, result |-> <<>>]
        lone(x) == a.start = <<>> /\ a.end = <<>> /\ x
        do_strand == lone(a.organism_name = "" /\ a.chr = "" /\ a.strand # "")
    IN  [aborted |-> chain.aborted \/ (do_strand /\ ~_check_strand(a.strand)),
         buckets |->
            IF chain.aborted THEN <<>> ELSE
            Bucket(ChainActive(a), "genomic-search", chain.result)
         \o Bucket(a.mirna_id # <<>>, "mirna_id-search", retrieve_all(ids, a.mirna_id))
         \o Bucket(a.prec_id # <<>>, "prec_id-search", mirnas_of(st, a.prec_id))
         \o Bucket(a.name # <<>>, "name-search",
                   IF a.name \in DOMAIN st.matures_name
                   THEN <<st.matures_name[a.name]>> ELSE <<>>)
         \o Bucket(lone(a.chr = "" /\ a.strand = "" /\ a.organism_name # ""), "organism-search",
                   Scan(v, {x \in ids : v.at[x].organism = a.organism_name}))
         \o Bucket(a.tax_level # "", "tax-search",
                   mirnas_of_tax(st, st.precursors_ID.keys, a.tax_level, <<>>))
         \o Bucket(lone(a.organism_name = "" /\ a.strand = "" /\ a.chr # ""), "chr-search",
                   Scan(v, {x \in ids : InSeq(a.chr, v.at[x].chromosome)}))
         \o Bucket(do_strand /\ _check_strand(a.strand), "strand-search",
                   Scan(v, {x \in ids : InSeq(a.strand, v.at[x].strand)}))]

NoResult == [kind |-> "None", value |-> <<>>, count |-> 0]

Raised == [kind |-> "raise", value |-> <<>>, count |-> 0]

\* search_return with the emptiness test of the commented-out lines 664-665
search_return_gt(dict_result) ==
    IF Len(dict_result) > 1 /\ ~(\E i \in DOMAIN dict_result : dict_result[i][2] # <<>>)
    THEN NoResult
    ELSE IF ~(Len(dict_result) > 1)
    THEN IF dict_result # <<>>
         THEN [kind |-> "list", value |-> dict_result[1][2], count |-> Len(dict_result[1][2])]
         ELSE NoResult
    ELSE [kind |-> "dict", value |-> dict_result,
          count |-> SumLen([i \in DOMAIN dict_result |-> dict_result[i][2]])]

\* search_return that leaves the unsuccessful searches out of the mapping
search_return_drop(dict_result) ==
    LET found == SelectSeq(dict_result, LAMBDA b : b[2] # <<>>)
    IN  IF found = <<>> THEN NoResult
        ELSE IF Len(dict_result) = 1
        THEN [kind |-> "list", value |-> dict_result[1][2], count |-> Len(dict_result[1][2])]
        ELSE [kind |-> "dict", value |-> found,
              count |-> SumLen([i \in DOMAIN found |-> found[i][2]])]

\* the tail of both functions, from `if len(dict_result) >= 1 and not ...`
search_return(dict_result) ==
    IF Len(dict_result) >= 1 /\ ~(\E i \in DOMAIN dict_result : dict_result[i][2] # <<>>)
    THEN NoResult
    ELSE IF ~(Len(dict_result) > 1)
    THEN IF dict_result # <<>>
         THEN [kind |-> "list", value |-> dict_result[1][2], count |-> Len(dict_result[1][2])]
         ELSE NoResult
    ELSE [kind |-> "dict", value |-> dict_result,
          count |-> SumLen([i \in DOMAIN dict_result |-> dict_result[i][2]])]

get_precursor(st, a) ==
    LET b == precursor_buckets(st, a)
    IN  IF b.aborted THEN NoResult ELSE search_return(b.buckets)

get_mirna(st, a) ==
    LET b == mirna_buckets(st, a)
    IN  IF b.aborted THEN NoResult ELSE search_return(b.buckets)

\* ------------------------------------------------------------------------
\* MiRLoad.load_miRNA: the feature table of one record, line by line. A
\* line is [k, v, closed]: k is "range" (FT miRNA <start>..<end>),
\* "accession", "product", "evidence", "experiment" (closed when the line
\* ends with the quote), "text" (an FT continuation line), or the line's
\* two-letter code. An experiment value is the sequence of its pieces.
\* ------------------------------------------------------------------------
\* the inner `while line.startswith("FT") and "/experiment=" not in line
\* and "miRNA" not in line`, from line p on
RECURSIVE ft_continuation(_, _, _)
ft_continuation(lines, p, ex) ==
    IF p > Len(lines) THEN [line |-> p, ex |-> ex, raised |-> TRUE]
    ELSE IF lines[p].k \in {"accession", "product", "evidence", "text"}
    THEN ft_continuation(lines, p + 1, Append(ex, lines[p].v))
    ELSE [line |-> p, ex |-> ex, raised |-> FALSE]

\* one iteration of `while not line.startswith("SQ")`; raised is the
\* StopIteration of next() at the end of the file, or the IndexError of
\* products[-1] on an empty list
ft_step(lines, p, products) ==
    LET l == lines[p]
        c == Len(products)
        add(ps, v) == [ps EXCEPT ![c] = Append(@, v)]
        done(q, ps) == [line |-> q, products |-> ps, raised |-> q > Len(lines)]
        stop(ps) == [line |-> p, products |-> ps, raised |-> TRUE]
    IN  IF l.k = "range" THEN done(p + 1, Append(products, l.v))
        ELSE IF l.k \notin {"accession", "product", "evidence"} THEN done(p + 1, products)
        ELSE IF c = 0 THEN stop(products)
        ELSE IF l.k # "evidence" THEN done(p + 1, add(products, l.v))
        ELSE IF l.v # "experimental" THEN done(p + 1, add(add(products, l.v), <<"-">>))
        ELSE IF p + 1 > Len(lines) THEN stop(add(products, l.v))
        ELSE IF lines[p + 1].k # "experiment"
        THEN done(p + 2, add(add(products, l.v), <<>>))
        ELSE IF lines[p + 1].closed
        THEN done(p + 2, add(add(products, l.v), <<lines[p + 1].v>>))
        ELSE LET t == ft_continuation(lines, p + 2, <<lines[p + 1].v>>)
             IN  IF t.raised THEN stop(add(products, l.v))
                 ELSE done(t.line, add(add(products, l.v), t.ex))

\* ------------------------------------------------------------------------
\* The lookups of MiRBase. A result is [kind, value, count]; kind "raise"
\* is an exception that leaves the function. A list argument is a sequence
\* (a str argument is the list of that one string).
\* ------------------------------------------------------------------------
\* the keys of dict(zip(organism_codes, ...)) in insertion order
organism_codes(st) ==
    AppendNew(<<>>, [i \in DOMAIN st.organisms |-> st.organisms[i].name])

\* the loop `for org in organism: try: result[org] = dct[org]` of
\* get_tax_level and get_taxid; the result is the sequence of <<key, value>>
RECURSIVE lookup_each(_, _, _)
lookup_each(organism, dct, result) ==
    IF organism = <<>> THEN result
    ELSE lookup_each(Tail(organism), dct,
             IF /\ Head(organism) \in DOMAIN dct
                /\ ~\E i \in DOMAIN result : result[i][1] = Head(organism)
             THEN Append(result, <<Head(organism), dct[Head(organism)]>>)
             ELSE result)

\* `if not result: return None` / `return result, len(result)`
lookup_return(kind, result) ==
    IF result = <<>> THEN NoResult
    ELSE [kind |-> kind, value |-> result, count |-> Len(result)]

get_tax_level(st, organism) ==
    lookup_return("dict", lookup_each(organism, make_tax_dict(st), <<>>))

get_taxid(st, organism) ==
    LET last(n) == CHOOSE i \in DOMAIN st.organisms :
                       /\ st.organisms[i].name = n
                       /\ \A j \in DOMAIN st.organisms : st.organisms[j].name = n => j <= i
        tax_dct == [n \in Range(organism_codes(st)) |-> st.organisms[last(n)].taxid]
    IN  lookup_return("dict", lookup_each(organism, tax_dct, <<>>))

get_organism(st, tax) ==
    LET tax_dct == make_tax_dict(st)
    IN  lookup_return("list", KeepIn(organism_codes(st),
                                     {k \in DOMAIN tax_dct : InSeq(tax, tax_dct[k])}, <<>>))

\* organism is <<>> for None and <<name>> otherwise; list.index raises
\* ValueError when no value of self._org_sh equals the name
get_organisms_short(st, organism) ==
    IF organism # <<>>
    THEN LET hits == {i \in DOMAIN st.org_sh.keys :
                         st.org_sh.at[st.org_sh.keys[i]] = organism[1]}
         IN  IF hits = {} THEN Raised
             ELSE LET first == CHOOSE i \in hits : \A j \in hits : i <= j
                  IN  [kind |-> IF organism[1] # "" THEN "str" ELSE "list",
                       value |-> IF organism[1] # "" THEN st.org_sh.keys[first]
                                 ELSE <<st.org_sh.keys[first]>>,
                       count |-> 1]
    ELSE IF st.org_sh.keys = <<>> THEN NoResult
    ELSE [kind |-> "dict", value |-> st.org_sh, count |-> Len(st.org_sh.keys)]

\* value is [ids, names], the entries of id_result and of name_result: a
\* precursor name is never an identifier, so {**id_result, **name_result}
\* has the entries of both. One unknown identifier raises KeyError inside
\* the comprehension and id_result stays {}
get_structure(st, id, name) ==
    LET at == st.precursors_ID.at
        ids == AppendNew(<<>>, id)
        id_result == IF \A i \in DOMAIN id : id[i] \in DOMAIN at
                     THEN [i \in DOMAIN ids |-> <<at[ids[i]].ID, at[ids[i]].structure>>]
                     ELSE <<>>
        named == KeepIn(st.precursors_ID.keys,
                        {p \in DOMAIN at : InSeq(at[p].name, name)}, <<>>)
        name_result == [i \in DOMAIN named |-> <<at[named[i]].name, at[named[i]].structure>>]
    IN  IF id_result = <<>> /\ name_result = <<>> THEN NoResult
        ELSE [kind |-> "dict", value |-> [ids |-> id_result, names |-> name_result],
              count |-> Len(id_result) + Len(name_result)]

\* the loops `for key in <list>: try: for ref in <entity>.references: ...`
\* of get_references. found maps the keys that resolve to the entity's
\* `references` list; result is a defaultdict(list), so a key appears with
\* its first reference. A reference (a PubMed number) is never a key of
\* result (identifiers and names), so `ref not in result` holds
RECURSIVE collect_refs(_, _, _, _, _)
collect_refs(st, result, keys, found, link) ==
    IF keys = <<>> THEN result
    ELSE LET k    == Head(keys)
             refs == IF k \in DOMAIN found THEN st.ref_heap[found[k]] ELSE <<>>
             out  == [i \in DOMAIN refs |->
                         IF link THEN <<"https://pubmed.ncbi.nlm.nih.gov/", refs[i], "/">>
                         ELSE refs[i]]
         IN  collect_refs(st,
                 IF out = <<>> THEN result
                 ELSE IF k \in DOMAIN result.at
                 THEN [result EXCEPT !.at[k] = @ \o out]
                 ELSE DictSet(result, k, out),
                 Tail(keys), found, link)

\* value is [ids, names]: the entries keyed by identifiers and by names
get_references(st, a) ==
    LET mi == st.miRNAs_ID.at
        pr == st.precursors_ID.at
        r1 == collect_refs(st, EmptyDict, a.mirna_id,
                           [m \in DOMAIN mi |-> mi[m].references], a.link)
        r2 == collect_refs(st, EmptyDict, a.mirna_name,
                           [n \in {n \in DOMAIN st.matures_name : st.matures_name[n] \in DOMAIN mi}
                               |-> mi[st.matures_name[n]].references], a.link)
        r3 == collect_refs(st, r2, a.prec_name,
                           [n \in {n \in DOMAIN st.precursors_name : st.precursors_name[n] \in DOMAIN pr}
                               |-> pr[st.precursors_name[n]].references], a.link)
        r4 == collect_refs(st, r1, a.prec_id,
                           [p \in DOMAIN pr |-> pr[p].references], a.link)
    IN  IF r3.keys = <<>> /\ r4.keys = <<>> THEN NoResult
        ELSE [kind |-> "dict", value |-> [ids |-> r4, names |-> r3],
              count |-> Len(r3.keys) + Len(r4.keys)]

\* the order of Python's `<` on the organism names of the model
NameOrder == <<"V", "X", "Xa", "Y">>

SortNames_keep(s) == s

\* list.sort() on a list of organism names
RECURSIVE SortNames(_)
SortNames(s) ==
    IF s = <<>> THEN <<>>
    ELSE LET rank(n) == CHOOSE r \in DOMAIN NameOrder : NameOrder[r] = n
             i == CHOOSE i \in DOMAIN s :
                      \A j \in DOMAIN s : rank(s[i]) < rank(s[j]) \/ (rank(s[i]) = rank(s[j]) /\ i <= j)
         IN  <<s[i]>> \o SortNames(SubSeq(s, 1, i - 1) \o SubSeq(s, i + 1, Len(s)))

\* tax_path is <<>> for None and <<path>> otherwise. org_tree is held as
\* the set of its nodes (the prefixes of the taxonomy paths) and the
\* "!organism" list of each node that has one; a slice is the same, relative
\* to its root. A path that leaves the nodes creates empty defaultdicts
\* (`not tree_slice`) or indexes a list (the except), None either way
get_tree(st, tax_path) ==
    LET tax_dct == make_tax_dict(st)
        keys == organism_codes(st)
        nodes == UNION {{SubSeq(tax_dct[k], 1, n) : n \in 0..Len(tax_dct[k])} : k \in DOMAIN tax_dct}
        at(p) == SelectSeq(keys, LAMBDA k : tax_dct[k] = p)
        organism(p) == SortNames(<<at(p)[Len(at(p))]>> \o SubSeq(at(p), 1, Len(at(p)) - 1))
        below(q) == {n \in nodes : Len(n) >= Len(q) /\ SubSeq(n, 1, Len(q)) = q}
        rel(q, n) == SubSeq(n, Len(q) + 1, Len(n))
        slice(q) == [levels |-> {rel(q, n) : n \in below(q)},
                     organism |-> [r \in {rel(q, n) : n \in {n \in below(q) : at(n) # <<>>}}
                                      |-> organism(q \o r)]]
    IN  IF tax_path = <<>>
        THEN [kind |-> "dict", value |-> slice(<<>>), count |-> 1]
        ELSE IF tax_path[1] \in nodes
        THEN [kind |-> "dict", value |-> slice(tax_path[1]), count |-> 1]
        ELSE NoResult

\* the objects are given by their identifiers. An object of the other class
\* raises AttributeError: the comprehension over prec_obj then yields
\* nothing, the loop over mirna_obj keeps what it appended. value is
\* set(result), count is len(result)
RECURSIVE hc_mirnas(_, _, _)
hc_mirnas(st, mirna_obj, result) ==
    IF mirna_obj = <<>> \/ Head(mirna_obj) \notin DOMAIN st.miRNAs_ID.at THEN result
    ELSE LET precs == st.miRNAs_ID.at[Head(mirna_obj)].precursors
         IN  hc_mirnas(st, Tail(mirna_obj),
                 result \o [i \in DOMAIN SelectSeq(precs, LAMBDA p :
                                st.precursors_ID.at[p].high_confidence) |-> Head(mirna_obj)])

\* MiRBase.high_conf (the variable high_conf is self._high_conf)
high_conf_filter(st, mirna_obj, prec_obj) ==
    LET at == st.precursors_ID.at
        precs == IF \A i \in DOMAIN prec_obj : prec_obj[i] \in DOMAIN at
                 THEN SelectSeq(prec_obj, LAMBDA p : at[p].high_confidence)
                 ELSE <<>>
        result == hc_mirnas(st, mirna_obj, precs)
    IN  IF result = <<>> THEN NoResult
        ELSE [kind |-> "list", value |-> Range(result), count |-> Len(result)]

\* ------------------------------------------------------------------------
\* MiRBase.find_cluster
\* ------------------------------------------------------------------------
\* the window of search_prec2: three independent `if`s, <<0, 0>> otherwise
prec_window(search_type, start, rng) ==
    LET w0 == <<0, 0>>
        w1 == IF search_type = "up-downstream" THEN <<start - rng, start + rng>> ELSE w0
        w2 == IF search_type = "downstream" THEN <<start, start + rng>> ELSE w1
    IN  IF search_type = "upstream" THEN <<start - rng, start>> ELSE w2

\* the window of search_mirna2: an if/elif chain whose else returns None
mirna_window(search_type, start, rng) ==
    IF search_type = "up-downstream" THEN <<start - rng, start + rng>>
    ELSE IF search_type = "upstream" THEN <<start, start + rng>>
    ELSE IF search_type = "downstream" THEN <<start - rng, start>>
    ELSE <<>>

\* the `for prec in self._precursors_ID` loop of both helpers
cluster_scan(st, org, w, result) ==
    KeepIn(st.precursors_ID.keys,
           {p \in DOMAIN st.precursors_ID.at :
               /\ st.precursors_ID.at[p].organism = org
               /\ \E i \in DOMAIN st.precursors_ID.at[p].genome_coordinates :
                      InInterval(w[1], w[2], st.precursors_ID.at[p].genome_coordinates[i])},
           result)

search_prec2(st, start, org, rng, search_type, result) ==
    cluster_scan(st, org, prec_window(search_type, start, rng), result)

search_mirna2(st, start, org, rng, search_type, result) ==
    LET w == mirna_window(search_type, start, rng)
    IN  IF w = <<>> THEN result ELSE cluster_scan(st, org, w, result)

\* `for coord in <anchor precursor>.genome_coordinates: search(...)`
RECURSIVE cluster_coords(_, _, _, _, _, _, _)
cluster_coords(st, by_mirna, coords, org, rng, search_type, result) ==
    IF coords = <<>> THEN result
    ELSE LET start_position == Head(coords)[1]
         IN  cluster_coords(st, by_mirna, Tail(coords), org, rng, search_type,
                 IF by_mirna
                 THEN search_mirna2(st, start_position, org, rng, search_type, result)
                 ELSE search_prec2(st, start_position, org, rng, search_type, result))

\* the windows the helpers compute, one per coordinate of the anchor precursor
cluster_windows(st, a) ==
    IF a.mirna_id # "" /\ a.prec_id # "" THEN <<>>
    ELSE IF a.mirna_id # ""
    THEN IF a.range[1] < 0 \/ a.mirna_id \notin DOMAIN st.miRNAs_ID.at THEN <<>>
         ELSE LET coords == st.precursors_ID.at[
                                st.miRNAs_ID.at[a.mirna_id].precursors[1]].genome_coordinates
              IN  [i \in DOMAIN coords |-> mirna_window(a.search_type, coords[i][1], a.range[1])]
    ELSE IF a.prec_id # ""
    THEN IF a.range[1] < 0 \/ a.prec_id \notin DOMAIN st.precursors_ID.at THEN <<>>
         ELSE LET coords == st.precursors_ID.at[a.prec_id].genome_coordinates
              IN  [i \in DOMAIN coords |-> prec_window(a.search_type, coords[i][1], a.range[1])]
    ELSE <<>>

\* mirna_id and prec_id are "" for None; range is <<n>>
find_cluster(st, a) ==
    LET out(result) == IF result = <<>> THEN NoResult
                       ELSE [kind |-> "list", value |-> result, count |-> Len(result)]
    IN  IF a.mirna_id # "" /\ a.prec_id # "" THEN NoResult
        ELSE IF a.mirna_id # ""
        THEN IF a.range[1] < 0 THEN NoResult
             ELSE IF a.mirna_id \notin DOMAIN st.miRNAs_ID.at THEN Raised
             ELSE LET m == st.miRNAs_ID.at[a.mirna_id]
                  IN  out(cluster_coords(st, TRUE,
                              st.precursors_ID.at[m.precursors[1]].genome_coordinates,
                              m.organism, a.range[1], a.search_type, <<>>))
        ELSE IF a.prec_id # ""
        THEN IF a.range[1] < 0 THEN NoResult
             ELSE IF a.prec_id \notin DOMAIN st.precursors_ID.at THEN Raised
             ELSE LET p == st.precursors_ID.at[a.prec_id]
                  IN  out(cluster_coords(st, FALSE, p.genome_coordinates,
                              p.organism, a.range[1], a.search_type, <<>>))
        ELSE NoResult

\* ------------------------------------------------------------------------
\* State
\* ------------------------------------------------------------------------
VARIABLES
    organisms,        \* self._organisms
    org_sh,           \* self._org_sh
    precursors_ID,    \* self._precursors_ID
    precursors_name,  \* self._precursors_name
    miRNAs_ID,        \* self._miRNAs_ID
    matures_name,     \* self._matures_name
    high_conf,        \* self._high_conf
    structures,       \* self._structures
    ref_heap,         \* the `ref` list objects created by load_miRNA
    taxonomy_of_prec, \* self._taxonomy_of_prec
    organisms_of_prec,\* self._organisms_of_prec
    phase,            \* "loading", "failed" (the compile raised) or "ready"
    n_records,        \* records of miRNA.dat consumed so far
    pc,               \* "idle", or "returned" while the caller holds a result
    call,             \* the query being answered: [op, args]
    dict_result,      \* dict_result of that query at its return statement
    aborted,          \* that return was a validation `return None`
    windows,          \* find_cluster: <<int_start, int_end>> of each helper call
    ret,              \* what the query returned
    g_org,            \* load_genome: position of `org` in self._org_sh
    n_lines,          \* load_genome: feature lines processed so far
    disk,             \* the .mir files of data/<version>
    remote,           \* the files of the miRBase release the compile reads
    log,              \* what __init__ has attempted so far
    at_compile_end,   \* the store as _compile_indexes left it
    ft                \* load_miRNA in a feature table: [file, line, products]

storeVars == <<organisms, org_sh, precursors_ID, precursors_name, miRNAs_ID,
               matures_name, high_conf, structures, ref_heap,
               taxonomy_of_prec, organisms_of_prec>>

queryVars == <<pc, call, dict_result, aborted, windows, ret>>

genomeVars == <<g_org, n_lines>>

buildVars == <<disk, remote, log, at_compile_end>>

auxVars == <<genomeVars, buildVars, ft>>

vars == <<storeVars, phase, n_records, queryVars, auxVars>>

Store ==
    [organisms |-> organisms, org_sh |-> org_sh,
     precursors_ID |-> precursors_ID, precursors_name |-> precursors_name,
     miRNAs_ID |-> miRNAs_ID, matures_name |-> matures_name,
     high_conf |-> high_conf, structures |-> structures, ref_heap |-> ref_heap,
     taxonomy_of_prec |-> taxonomy_of_prec, organisms_of_prec |-> organisms_of_prec]

StoreIs(st) ==
    /\ organisms = st.organisms
    /\ org_sh = st.org_sh
    /\ precursors_ID = st.precursors_ID
    /\ precursors_name = st.precursors_name
    /\ miRNAs_ID = st.miRNAs_ID
    /\ matures_name = st.matures_name
    /\ high_conf = st.high_conf
    /\ structures = st.structures
    /\ ref_heap = st.ref_heap
    /\ taxonomy_of_prec = st.taxonomy_of_prec
    /\ organisms_of_prec = st.organisms_of_prec

StoreBecomes(st) ==
    /\ organisms' = st.organisms
    /\ org_sh' = st.org_sh
    /\ precursors_ID' = st.precursors_ID
    /\ precursors_name' = st.precursors_name
    /\ miRNAs_ID' = st.miRNAs_ID
    /\ matures_name' = st.matures_name
    /\ high_conf' = st.high_conf
    /\ structures' = st.structures
    /\ ref_heap' = st.ref_heap
    /\ taxonomy_of_prec' = st.taxonomy_of_prec
    /\ organisms_of_prec' = st.organisms_of_prec

NoCall == [op |-> "none", args |-> <<>>]

NoQuery ==
    /\ pc = "idle"
    /\ call = NoCall
    /\ dict_result = <<>>
    /\ aborted = FALSE
    /\ windows = <<>>
    /\ ret = NoResult

\* no load_genome call is in progress
NoGenome == g_org = 0 /\ n_lines = 0

\* no construction is observed
NoBuild ==
    /\ disk = EmptyDisk
    /\ remote = <<>>
    /\ log = <<>>
    /\ at_compile_end = EmptyStore

NoAux == NoGenome /\ NoBuild /\ ft = <<>>

\* ------------------------------------------------------------------------
\* Input files
\* ------------------------------------------------------------------------
OrganismLines ==
    << [organism |-> "xx", division |-> "D", name |-> "X",
        tree |-> <<"A", ";", "B", ";">>, taxid |-> "1"],
       [organism |-> "yy", division |-> "D", name |-> "Y",
        tree |-> <<"A", ";", "C", ";">>, taxid |-> "2"],
       [organism |-> "ww", division |-> "D", name |-> "Xa",
        tree |-> <<"A", ";", "B", ";">>, taxid |-> "3"],
       [organism |-> "vv", division |-> "D", name |-> "V",
        tree |-> <<"A", ";">>, taxid |-> "4"] >>

Product(s, e, ac, stem, arm) ==
    [start |-> s, end |-> e, ac |-> ac, name |-> <<stem, arm>>,
     ev |-> "experimental", ex |-> "cloned"]

Rec(id_p, code, rest, ref, products) ==
    [id_p |-> id_p, name_p |-> <<code, rest>>, ref |-> ref,
     products |-> products, seq_full |-> <<"u", "g", "a", "c">>]

\* miRNA.dat of the query runs: three precursors of X, one of Y; M1 is
\* reported under P1 and P2
QueryRecords ==
    << Rec("P1", "xx", "mir-1", <<"r1">>,
           << Product(1, 2, "M1", "miR-1", "5p"), Product(3, 4, "M2", "miR-1", "3p") >>),
       Rec("P2", "xx", "mir-2", <<"r2">>, << Product(1, 2, "M1", "miR-1", "5p") >>),
       Rec("P3", "xx", "mir-3", <<>>, <<>>),
       Rec("P4", "yy", "mir-4", <<"r1", "r2">>, << Product(2, 3, "M4", "miR-4", "") >>) >>

Intervals == {<<lo, hi>> \in (0..MaxCoord) \X (0..MaxCoord) : lo <= hi}

Primary(chr, strand, iv, alias) ==
    [type |-> "miRNA_primary_transcript", chr |-> chr, strand |-> strand,
     start |-> iv[1], end |-> iv[2],
     attrs |-> << <<"ID", alias>>, <<"Alias", alias>>, <<"Name", alias>> >>]

Mature(chr, strand, iv, alias, derives) ==
    [type |-> "miRNA", chr |-> chr, strand |-> strand,
     start |-> iv[1], end |-> iv[2],
     attrs |-> << <<"ID", alias>>, <<"Alias", alias>>, <<"Name", alias>>,
                  <<"Derives_from", derives>> >>]

\* genomes/<organism>.gff3: P1 lies at any interval of c1 +, P2 has two
\* placements, P3 has none
GenomeFiles ==
    { ("xx" :> << Primary("c1", "+", iv, "P1"),
                  Mature("c1", "+", iv, "M1", "P1"),
                  Mature("c1", "+", iv, "M2", "P1"),
                  Primary("c1", "-", <<1, 2>>, "P2"),
                  Primary("c2", "+", <<2, 3>>, "P2"),
                  Mature("c1", "-", <<1, 2>>, "M1", "P2") >>)
      @@ ("yy" :> << Primary("c1", "+", <<1, 2>>, "P4"),
                     Mature("c1", "+", <<1, 2>>, "M4", "P4") >>)
      : iv \in Intervals }
    \cup
    { ("xx" :> << Primary("c1", "+", <<100, 200>>, "P1"),
                  Primary("c1", "+", <<150, 250>>, "P2"),
                  Primary("c1", "+", <<500, 600>>, "P3") >>) }

\* the store of a completed construction: the compile's parsers, then the
\* merge pass of _load_all_data
BuildStore(genomes) ==
    LET s1 == load_organisms(EmptyStore, OrganismLines)
        s2 == load_miRNA(s1, QueryRecords)
        s3 == load_genome(s2, genomes)
        s4 == [s3 EXCEPT !.high_conf = <<"P1", "P2">>,
                         !.structures = [p \in DOMAIN s3.precursors_ID.at |->
                                             IF p = "P1" THEN "(.)" ELSE "((.))"]]
    IN  merge_data(s4)

\* ------------------------------------------------------------------------
\* Query arguments
\* ------------------------------------------------------------------------
NumArgs == {<<>>} \cup {<<n>> : n \in -1..MaxCoord}

SearchArgs ==
    [prec_id : {<<>>, <<"P1", "P1", "P9">>},
     mirna_id : {<<>>, <<"M1", "M2">>},
     name : {<<>>, <<"xx", "mir-1">>},
     organism_name : {"", "X", "Y"},
     tax_level : {"", "B"},
     chr : {"", "c1", "c2"},
     strand : {"", "+", "-", "x"},
     start : NumArgs,
     end : NumArgs]

\* get_mirna takes the same parameters; its name is a mature name
MirnaArgs(a) == IF a.name = <<>> THEN a ELSE [a EXCEPT !.name = <<"miR-1", "5p">>]

ClusterArgs ==
    [mirna_id : {"", "M1", "M4"},
     prec_id : {"", "P1", "P2", "P3"},
     search_type : {"up-downstream", "upstream", "downstream", "sideways"},
     range : {<<n>> : n \in (-1..MaxRange) \cup {100}}]

\* ------------------------------------------------------------------------
\* Queries on a constructed facade
\* ------------------------------------------------------------------------
InitQuery ==
    /\ \E g \in GenomeFiles : StoreIs(BuildStore(g))
    /\ phase = "ready"
    /\ n_records = Len(QueryRecords)
    /\ NoQuery
    /\ NoAux

GetPrecursor ==
    /\ phase = "ready" /\ pc = "idle"
    /\ \E a \in SearchArgs :
          LET b == precursor_buckets(Store, a)
          IN  /\ call' = [op |-> "get_precursor", args |-> a]
              /\ dict_result' = b.buckets
              /\ aborted' = b.aborted
              /\ windows' = <<>>
              /\ ret' = get_precursor(Store, a)
    /\ pc' = "returned"
    /\ UNCHANGED <<storeVars, phase, n_records, auxVars>>

GetMirna ==
    /\ phase = "ready" /\ pc = "idle"
    /\ \E a0 \in SearchArgs :
          LET a == MirnaArgs(a0)
              b == mirna_buckets(Store, a)
          IN  /\ call' = [op |-> "get_mirna", args |-> a]
              /\ dict_result' = b.buckets
              /\ aborted' = b.aborted
              /\ windows' = <<>>
              /\ ret' = get_mirna(Store, a)
    /\ pc' = "returned"
    /\ UNCHANGED <<storeVars, phase, n_records, auxVars>>

FindCluster ==
    /\ phase = "ready" /\ pc = "idle"
    /\ \E a \in ClusterArgs :
          /\ call' = [op |-> "find_cluster", args |-> a]
          /\ windows' = cluster_windows(Store, a)
          /\ ret' = find_cluster(Store, a)
    /\ dict_result' = <<>>
    /\ aborted' = FALSE
    /\ pc' = "returned"
    /\ UNCHANGED <<storeVars, phase, n_records, auxVars>>

\* the caller is done with the result and may call again
Return ==
    /\ pc = "returned"
    /\ pc' = "idle"
    /\ call' = NoCall
    /\ dict_result' = <<>>
    /\ aborted' = FALSE
    /\ windows' = <<>>
    /\ ret' = NoResult
    /\ UNCHANGED <<storeVars, phase, n_records, auxVars>>

NextSearch == GetPrecursor \/ GetMirna \/ Return

SpecSearch == InitQuery /\ [][NextSearch]_vars

NextCluster == FindCluster \/ Return

SpecCluster == InitQuery /\ [][NextCluster]_vars

\* ------------------------------------------------------------------------
\* The lookups on a constructed facade
\* ------------------------------------------------------------------------
\* organism names asked for; Q is no organism of the database
OrganismArgs == {<<>>, <<"X">>, <<"Q">>, <<"X", "Q">>, <<"Y", "X", "Y">>}

TaxPaths == UNION {[1..n -> {"A", "B", "C", "Z", "!organism"}] : n \in 0..MaxPath}

\* a call on the idle, constructed facade
Idle == phase = "ready" /\ pc = "idle"

\* the call ran to its return (or its exception) and changed no attribute
Called(op, args, r) ==
    /\ call' = [op |-> op, args |-> args]
    /\ ret' = r
    /\ dict_result' = <<>>
    /\ aborted' = FALSE
    /\ windows' = <<>>
    /\ pc' = "returned"
    /\ UNCHANGED <<storeVars, phase, n_records, auxVars>>

GetTaxLevel == Idle /\ \E organism \in OrganismArgs :
    Called("get_tax_level", organism, get_tax_level(Store, organism))

GetOrganism == Idle /\ \E tax \in {"", "A", "B", "C", "Z"} :
    Called("get_organism", tax, get_organism(Store, tax))

GetOrganismsShort == Idle /\ \E organism \in {<<>>, <<"X">>, <<"V">>, <<"Q">>, <<"">>} :
    Called("get_organisms_short", organism, get_organisms_short(Store, organism))

GetTaxid == Idle /\ \E organism \in OrganismArgs :
    Called("get_taxid", organism, get_taxid(Store, organism))

GetReferences ==
    Idle /\ \E a \in [mirna_id : {<<>>, <<"M1">>, <<"M1", "M9", "M1">>},
              mirna_name : {<<>>, << <<"miR-4", "">>, <<"miR-9", "">> >>},
              prec_name : {<<>>, << <<"xx", "mir-3">>, <<"yy", "mir-4">> >>},
              prec_id : {<<>>, <<"P9", "P2">>},
              link : BOOLEAN] :
        Called("get_references", a, get_references(Store, a))

GetStructure ==
    Idle /\ \E id \in {<<>>, <<"P1">>, <<"P2", "P1", "P2">>, <<"P1", "P9">>, <<"P9", "P2">>, <<"P9">>},
       name \in {<<>>, << <<"xx", "mir-1">> >>, << <<"xx", "mir-9">>, <<"xx", "mir-2">> >>} :
        Called("get_structure", [id |-> id, name |-> name], get_structure(Store, id, name))

GetTree_reordering == Idle /\ \E tax_path \in {<<>>} \cup {<<p>> : p \in TaxPaths} :
    /\ call' = [op |-> "get_tree", args |-> tax_path]
    /\ ret' = get_tree(Store, tax_path)
    /\ dict_result' = <<>> /\ aborted' = FALSE /\ windows' = <<>> /\ pc' = "returned"
    /\ organisms' = [i \in DOMAIN organisms |-> organisms[Len(organisms) + 1 - i]]
    /\ UNCHANGED <<precursors_ID, precursors_name, miRNAs_ID, matures_name, org_sh,
                   high_conf, structures, ref_heap, taxonomy_of_prec, organisms_of_prec,
                   phase, n_records, auxVars>>

GetTree == Idle /\ \E tax_path \in {<<>>} \cup {<<p>> : p \in TaxPaths} :
    Called("get_tree", tax_path, get_tree(Store, tax_path))

HighConf ==
    Idle /\ \E mirna_obj \in {<<>>, <<"M1">>, <<"M4", "M1">>, <<"M1", "P1", "M1">>},
       prec_obj \in {<<>>, <<"P2">>, <<"P1", "P2">>, <<"P1", "P1">>, <<"P1", "M1">>} :
        Called("high_conf", [mirna_obj |-> mirna_obj, prec_obj |-> prec_obj],
               high_conf_filter(Store, mirna_obj, prec_obj))

NextLookup ==
    \/ GetTaxLevel \/ GetOrganism \/ GetOrganismsShort \/ GetTaxid
    \/ GetReferences \/ GetStructure \/ GetTree \/ HighConf \/ Return

SpecLookup == InitQuery /\ [][NextLookup]_vars

NextQuery ==
    \/ GetTaxLevel \/ GetOrganism \/ GetOrganismsShort \/ GetTaxid
    \/ GetReferences \/ GetStructure \/ GetTree \/ HighConf
    \/ FindCluster \/ GetPrecursor \/ GetMirna \/ Return

SpecQuery == InitQuery /\ [][NextQuery]_vars

\* ------------------------------------------------------------------------
\* The compile: load_miRNA consuming miRNA.dat record by record
\* ------------------------------------------------------------------------
LoadProducts ==
    {Product(1, 2, "M1", "miR-1", "5p"),
     Product(2, 4, "M1", "miR-1b", ""),
     Product(3, 9, "M2", "miR-1", "5p")}

ProductLists ==
    {<<>>} \cup {<<v>> : v \in LoadProducts}
    \cup {<<Product(1, 2, "M1", "miR-1", "5p"), w>> : w \in LoadProducts}

LoadRecords ==
    {Rec(h[1], h[2], h[3], ref, products) :
        h \in {<<"P1", "xx", "mir-1">>, <<"P2", "xx", "mir-1">>,
               <<"P2", "yy", "mir-2">>, <<"P3", "zz", "mir-3">>},
        ref \in {<<>>, <<"r1">>, <<"r1", "r2">>},
        products \in ProductLists}

InitLoad ==
    /\ StoreIs(load_organisms(EmptyStore, OrganismLines))
    /\ phase = "loading"
    /\ n_records = 0
    /\ NoQuery
    /\ NoAux

LoadRecord ==
    /\ phase = "loading" /\ n_records < MaxRecords
    /\ \E rec \in LoadRecords :
          /\ RecordLoadable(Store, rec)
          /\ StoreBecomes(load_record(Store, rec))
    /\ n_records' = n_records + 1
    /\ UNCHANGED <<phase, queryVars, auxVars>>

\* self._org_sh[org] raises KeyError: the compile stops with the store as
\* the earlier records left it
LoadRecordFails ==
    /\ phase = "loading" /\ n_records < MaxRecords
    /\ \E rec \in LoadRecords : ~RecordLoadable(Store, rec)
    /\ phase' = "failed"
    /\ UNCHANGED <<storeVars, n_records, queryVars, auxVars>>

NextLoad == LoadRecord \/ LoadRecordFails

SpecLoad == InitLoad /\ [][NextLoad]_vars

\* ------------------------------------------------------------------------
\* The compile: load_genome consuming the gff3 files line by line
\* ------------------------------------------------------------------------
\* a feature of another type, and a line whose column 9 has one attribute
OtherFeature ==
    [type |-> "exon", chr |-> "c1", strand |-> "+", start |-> 1, end |-> 2,
     attrs |-> << <<"ID", "P1">>, <<"Alias", "P1">> >>]

ShortFeature ==
    [type |-> "miRNA", chr |-> "c1", strand |-> "+", start |-> 1, end |-> 2,
     attrs |-> << <<"ID", "M1">> >>]

\* a mature line without the Derives_from attribute
NoDerives(f) == [f EXCEPT !.attrs = SubSeq(@, 1, 3)]

\* P9 and M9 are identifiers no record of miRNA.dat has
FeatureLines ==
    {Primary("c1", s, <<1, 2>>, alias) : s \in {"+", "-"}, alias \in {"P1", "P2", "P9", "M1"}}
    \cup {Mature("c1", "+", <<1, 2>>, alias, d) : alias \in {"M1", "M2", "M9"}, d \in {"P1", "P9"}}
    \cup {NoDerives(Mature("c1", "+", <<1, 2>>, "M1", "P1")), OtherFeature, ShortFeature}

InitGenome ==
    /\ StoreIs(load_miRNA(load_organisms(EmptyStore, OrganismLines), QueryRecords))
    /\ phase = "loading"
    /\ n_records = Len(QueryRecords)
    /\ NoQuery
    /\ g_org = 1
    /\ n_lines = 0
    /\ NoBuild
    /\ ft = <<>>

GenomeOrg == phase = "loading" /\ g_org \in DOMAIN org_sh.keys

\* urlopen raises for an organism without a gff3 file: `continue`
GenomeMissing ==
    /\ GenomeOrg
    /\ g_org' = g_org + 1
    /\ UNCHANGED <<storeVars, phase, n_records, queryVars, n_lines, buildVars, ft>>

\* one iteration of `for line in file2`
GenomeLine ==
    /\ GenomeOrg /\ n_lines < MaxLines
    /\ \E f \in FeatureLines :
          /\ FeatureParsable(f)
          /\ StoreBecomes(load_feature(Store, f))
    /\ n_lines' = n_lines + 1
    /\ UNCHANGED <<phase, n_records, queryVars, g_org, buildVars, ft>>

\* IndexError outside the try blocks: load_genome raises, the compile stops
GenomeLineFails ==
    /\ GenomeOrg /\ n_lines < MaxLines
    /\ \E f \in FeatureLines : ~FeatureParsable(f)
    /\ phase' = "failed"
    /\ UNCHANGED <<storeVars, n_records, queryVars, genomeVars, buildVars, ft>>

\* the file of this organism is exhausted
GenomeEof ==
    /\ GenomeOrg
    /\ g_org' = g_org + 1
    /\ UNCHANGED <<storeVars, phase, n_records, queryVars, n_lines, buildVars, ft>>

NextGenome == GenomeMissing \/ GenomeLine \/ GenomeLineFails \/ GenomeEof

SpecGenome == InitGenome /\ [][NextGenome]_vars

\* ------------------------------------------------------------------------
\* MiRBase.__init__: the snapshot load, the compile and the retried load
\* ------------------------------------------------------------------------
Block(code, rest, dot) == [name |-> <<code, rest>>, dot |-> dot]

\* miRNA.str: complete, without P3, and with a name miRNA.dat does not have
StrFiles ==
    { << Block("xx", "mir-1", "(.)"), Block("xx", "mir-2", "((.))"),
         Block("xx", "mir-3", ".."), Block("yy", "mir-4", "(..)") >>,
      << Block("xx", "mir-1", "(.)"), Block("xx", "mir-2", "((.))"),
         Block("yy", "mir-4", "(..)") >>,
      << Block("xx", "mir-1", "(.)"), Block("xx", "mir-9", "((.))") >> }

Remotes ==
    { [organisms |-> OrganismLines, records |-> QueryRecords, genomes |-> g,
       has_hc |-> h[1], hc |-> h[2], str |-> b] :
         g \in { ("xx" :> << Primary("c1", "+", <<1, 2>>, "P1"),
                             Mature("c1", "+", <<1, 2>>, "M1", "P1") >>),
                 ("yy" :> << Primary("c2", "-", <<2, 3>>, "P4") >>) },
         h \in { <<FALSE, <<>> >>, <<TRUE, <<>> >>, <<TRUE, <<"P1">> >>,
                 <<TRUE, <<"P2", "P1">> >>, <<TRUE, <<"P1", "P9">> >> },
         b \in StrFiles }

\* _compile_indexes as a whole, up to the step that raises
compile_indexes(m, r) ==
    LET m3 == compile_hc(compile_miRNA(compile_organisms(m, r), r), r)
        m4 == compile_structures(m3, r)
    IN  IF m4.ok THEN compile_taxonomy(m4) ELSE m4

\* data/<version> before construction: empty, as an earlier construction's
\* compile of this release left it, or that with one file deleted
InitialDisks(r) ==
    LET d == compile_indexes([st |-> EmptyStore, disk |-> EmptyDisk, ok |-> TRUE], r).disk
    IN  {EmptyDisk, d}
        \cup {[d EXCEPT !.files = @ \ {f}] : f \in {"precursors_name", "organisms_of_prec"}}

InitBuild ==
    /\ StoreIs(EmptyStore)
    /\ phase = "start"
    /\ n_records = 0
    /\ NoQuery
    /\ NoGenome
    /\ remote \in Remotes
    /\ disk \in InitialDisks(remote)
    /\ log = <<>>
    /\ at_compile_end = EmptyStore
    /\ ft = <<>>

\* where a raise in _load_all_data leads: the compile from the first
\* attempt, exit() from the retried one
AfterLoadRaises == IF phase' = "organisms" THEN <<"load_failed">> ELSE <<"load_failed", "abort">>

\* LoadFiles whose failure after the compile starts the compile again
LoadFiles_again ==
    /\ phase \in {"start", "compiled"}
    /\ LET h == load_files(Store, disk, LoadOrder(remote.has_hc))
       IN  /\ StoreBecomes(h.st)
           /\ phase' = IF ~h.ok THEN "organisms"
                       ELSE IF phase = "start" THEN "loaded" ELSE "reloaded"
           /\ log' = log \o <<"load">> \o (IF h.ok THEN <<>> ELSE <<"load_failed">>)
    /\ UNCHANGED <<n_records, queryVars, genomeVars, disk, remote, at_compile_end, ft>>

\* _load_all_data, the dill.load statements
LoadFiles ==
    /\ phase \in {"start", "compiled"}
    /\ LET h == load_files(Store, disk, LoadOrder(remote.has_hc))
       IN  /\ StoreBecomes(h.st)
           /\ phase' = IF h.ok THEN (IF phase = "start" THEN "loaded" ELSE "reloaded")
                       ELSE IF phase = "start" THEN "organisms" ELSE "aborted"
           /\ log' = log \o <<"load">> \o (IF h.ok THEN <<>> ELSE AfterLoadRaises)
    /\ UNCHANGED <<n_records, queryVars, genomeVars, disk, remote, at_compile_end, ft>>

\* _load_all_data, the call of _merge_data
MergeData ==
    /\ phase \in {"loaded", "reloaded"}
    /\ IF MergeOk(Store)
       THEN /\ StoreBecomes(merge_data(Store))
            /\ phase' = "ready"
            /\ log' = Append(log, "load_ok")
       ELSE /\ StoreBecomes(merge_raises(Store))
            /\ phase' = IF phase = "loaded" THEN "organisms" ELSE "aborted"
            /\ log' = log \o AfterLoadRaises
    /\ UNCHANGED <<n_records, queryVars, genomeVars, disk, remote, at_compile_end, ft>>

\* one section of _compile_indexes: m is what it leaves, next the section
\* that follows; a raise ends construction (except Exception: exit())
CompileStep(m, next) ==
    /\ StoreBecomes(m.st)
    /\ disk' = m.disk
    /\ phase' = IF m.ok THEN next ELSE "aborted"
    /\ log' = (IF phase = "organisms" THEN Append(log, "compile") ELSE log)
              \o (IF ~m.ok THEN <<"compile_failed", "abort">>
                  ELSE IF next = "compiled" THEN <<"compile_ok">> ELSE <<>>)
    /\ at_compile_end' = IF m.ok /\ next = "compiled" THEN m.st ELSE at_compile_end
    /\ UNCHANGED <<n_records, queryVars, genomeVars, remote, ft>>

InMemory == [st |-> Store, disk |-> disk, ok |-> TRUE]

CompileOrganisms ==
    phase = "organisms" /\ CompileStep(compile_organisms(InMemory, remote), "mirna")

CompileMiRNA ==
    phase = "mirna" /\ CompileStep(compile_miRNA(InMemory, remote), "hc")

CompileHighConf ==
    phase = "hc" /\ CompileStep(compile_hc(InMemory, remote), "structures")

CompileStructures ==
    phase = "structures" /\ CompileStep(compile_structures(InMemory, remote), "taxonomy")

CompileTaxonomy ==
    phase = "taxonomy" /\ CompileStep(compile_taxonomy(InMemory), "compiled")

NextBuild ==
    \/ LoadFiles \/ MergeData
    \/ CompileOrganisms \/ CompileMiRNA \/ CompileHighConf
    \/ CompileStructures \/ CompileTaxonomy

SpecBuild == InitBuild /\ [][NextBuild]_vars

\* ========================================================================
\* Properties
\* ========================================================================
SearchReturned == pc = "returned" /\ call.op \in {"get_precursor", "get_mirna"}

ClusterReturned == pc = "returned" /\ call.op = "find_cluster"

Entities == IF call.op = "get_precursor" THEN DOMAIN precursors_ID.at ELSE DOMAIN miRNAs_ID.at

EntityAt(x) == IF call.op = "get_precursor" THEN precursors_ID.at[x] ELSE miRNAs_ID.at[x]

\* the genomic intervals of an entity
IntervalsOf(x) ==
    IF call.op = "get_precursor"
    THEN Range(precursors_ID.at[x].genome_coordinates)
    ELSE UNION {Range(miRNAs_ID.at[x].genome_coordinates.at[k]) :
                    k \in DOMAIN miRNAs_ID.at[x].genome_coordinates.at}

BucketKeys == {dict_result[i][1] : i \in DOMAIN dict_result}

BucketOf(key) == (CHOOSE i \in DOMAIN dict_result : dict_result[i][1] = key)

ChainAsked(a) == a.organism_name # "" /\ (a.chr # "" \/ a.strand # "")

\* the entities that reach the coordinate step of the genomic chain
ReachesCoordinateStep(x, a) ==
    /\ EntityAt(x).organism = a.organism_name
    /\ a.chr # "" => a.chr \in Range(EntityAt(x).chromosome)
    /\ a.strand # "" => a.strand \in Range(EntityAt(x).strand)

PassesCoordinateStep(x, a) ==
    IF a.start # <<>> /\ a.end # <<>>
    THEN \E iv \in IntervalsOf(x) :
            /\ a.start[1] <= iv[1] /\ iv[1] < a.end[1]
            /\ a.start[1] < iv[2] /\ iv[2] <= a.end[1]
    ELSE IF a.start # <<>>
    THEN \E iv \in IntervalsOf(x) : a.start[1] <= iv[1]
    ELSE \E iv \in IntervalsOf(x) : a.end[1] >= iv[2]

\* C1: with the genomic chain active and start and/or end supplied, the
\* genomic-search bucket holds exactly the entities that reached the
\* coordinate step and have an interval (f_start, f_stop) with
\* s <= f_start < e and s < f_stop <= e (both supplied), s <= f_start (start
\* only), e >= f_stop (end only).
C1_CoordinateStep ==
    (/\ SearchReturned /\ ~aborted
     /\ ChainAsked(call.args)
     /\ (call.args.start # <<>> \/ call.args.end # <<>>))
    => /\ "genomic-search" \in BucketKeys
       /\ Range(dict_result[BucketOf("genomic-search")][2]) =
              {x \in Entities : /\ ReachesCoordinateStep(x, call.args)
                                /\ PassesCoordinateStep(x, call.args)}

\* a get_mirna call with start and end whose coordinate step kept one entity
\* and rejected another
C1_Witness ==
    /\ SearchReturned /\ ~aborted /\ call.op = "get_mirna"
    /\ ChainAsked(call.args)
    /\ call.args.start # <<>> /\ call.args.end # <<>>
    /\ "genomic-search" \in BucketKeys
    /\ dict_result[BucketOf("genomic-search")][2] # <<>>
    /\ \E x \in Entities : /\ ReachesCoordinateStep(x, call.args)
                           /\ ~PassesCoordinateStep(x, call.args)

\* C2: with B the buckets evaluated by a call that reached its final step:
\* all of B empty (or no bucket) gives no result; one non-empty bucket gives
\* its list and its length; several buckets, one of them non-empty, give a
\* mapping with one entry per bucket of B and the summed count.
C2_ReturnShape ==
    (SearchReturned /\ ~aborted)
    => LET B == dict_result
           some == \E i \in DOMAIN B : B[i][2] # <<>>
       IN  /\ ~some => ret.kind = "None"
           /\ (Len(B) = 1 /\ some)
                => ret.kind = "list" /\ ret.value = B[1][2] /\ ret.count = Len(B[1][2])
           /\ (Len(B) > 1 /\ some)
                => /\ ret.kind = "dict"
                   /\ Len(ret.value) = Len(B)
                   /\ \A i \in DOMAIN B : ret.value[i] = B[i]
                   /\ \A i, j \in DOMAIN B : B[i][1] = B[j][1] => i = j
                   /\ ret.count = SumLen([i \in DOMAIN B |-> B[i][2]])

\* a mapping returned with an empty and a non-empty bucket
C2_Witness ==
    /\ SearchReturned /\ ~aborted
    /\ ret.kind = "dict"
    /\ \E i, j \in DOMAIN dict_result : dict_result[i][2] = <<>> /\ dict_result[j][2] # <<>>

\* C3 (as claimed): every supplied parameter among organism_name, chr and
\* strand is evaluated in exactly one bucket: the genomic chain when
\* organism_name comes with chr and/or strand, its own standalone bucket
\* otherwise.
C3_EveryParameterEvaluated ==
    (SearchReturned /\ ~aborted)
    => LET a == call.args
           OnceIn(own) ==
               IF ChainAsked(a)
               THEN "genomic-search" \in BucketKeys /\ own \notin BucketKeys
               ELSE own \in BucketKeys /\ "genomic-search" \notin BucketKeys
       IN  /\ a.organism_name # "" => OnceIn("organism-search")
           /\ a.chr # "" => OnceIn("chr-search")
           /\ a.strand # "" => OnceIn("strand-search")

InvalidCoordinates(a) ==
    \/ a.start # <<>> /\ a.start[1] < 0
    \/ a.end # <<>> /\ a.end[1] < 0
    \/ a.start # <<>> /\ a.end # <<>> /\ a.start[1] >= a.end[1]

\* C4 (as claimed): a call with a negative start or end, or with
\* start >= end, returns no result whatever else is supplied.
C4_InvalidCoordinatesAbort ==
    (SearchReturned /\ InvalidCoordinates(call.args)) => ret.kind = "None"

\* C5 (as claimed): a call whose strand is neither empty, `+` nor `-`
\* returns no result whatever else is supplied.
C5_InvalidStrandAborts ==
    (SearchReturned /\ call.args.strand \notin {"", "+", "-"}) => ret.kind = "None"

NoArgs ==
    [prec_id |-> <<>>, mirna_id |-> <<>>, name |-> <<>>, organism_name |-> "",
     tax_level |-> "", chr |-> "", strand |-> "", start |-> <<>>, end |-> <<>>]

Search(a) == IF call.op = "get_precursor" THEN get_precursor(Store, a) ELSE get_mirna(Store, a)

ListOf(r) == IF r.kind = "list" THEN r.value ELSE <<>>

NameAndChainOnly(a) ==
    /\ a.name # <<>> /\ a.organism_name # "" /\ a.chr # ""
    /\ a.prec_id = <<>> /\ a.mirna_id = <<>> /\ a.tax_level = ""
    /\ a.strand = "" /\ a.start = <<>> /\ a.end = <<>>

\* C6: a call with a display name and organism_name + chr returns, when one
\* of the two searches finds something, a mapping with exactly the buckets
\* name-search and genomic-search, each equal to the list the search returns
\* when called with that filter alone (empty for no result).
C6_IndependentBuckets ==
    (SearchReturned /\ NameAndChainOnly(call.args))
    => LET a == call.args
           by_name  == Search([NoArgs EXCEPT !.name = a.name])
           by_chain == Search([a EXCEPT !.name = <<>>])
       IN  /\ by_name.kind \in {"list", "None"}
           /\ by_chain.kind \in {"list", "None"}
           /\ (ListOf(by_name) # <<>> \/ ListOf(by_chain) # <<>>)
                => /\ ret.kind = "dict"
                   /\ Len(ret.value) = 2
                   /\ {ret.value[i][1] : i \in DOMAIN ret.value} =
                          {"name-search", "genomic-search"}
                   /\ \A i \in DOMAIN ret.value :
                         ret.value[i][2] = IF ret.value[i][1] = "name-search"
                                           THEN ListOf(by_name) ELSE ListOf(by_chain)
           /\ (ListOf(by_name) = <<>> /\ ListOf(by_chain) = <<>>) => ret.kind = "None"

\* a mapping whose two buckets are non-empty and share no entity
C6_Witness ==
    /\ SearchReturned /\ NameAndChainOnly(call.args)
    /\ ret.kind = "dict" /\ Len(ret.value) = 2
    /\ ret.value[1][2] # <<>> /\ ret.value[2][2] # <<>>
    /\ Range(ret.value[1][2]) \cap Range(ret.value[2][2]) = {}

\* the coordinates of the precursor that anchors a cluster search
AnchorCoords(a) ==
    IF a.mirna_id # ""
    THEN precursors_ID.at[miRNAs_ID.at[a.mirna_id].precursors[1]].genome_coordinates
    ELSE precursors_ID.at[a.prec_id].genome_coordinates

AnchorOrganism(a) ==
    IF a.mirna_id # "" THEN miRNAs_ID.at[a.mirna_id].organism
    ELSE precursors_ID.at[a.prec_id].organism

\* a cluster search with one known anchor, a range >= 0 and a known mode
ClusterSearched ==
    /\ ClusterReturned
    /\ (call.args.mirna_id = "") # (call.args.prec_id = "")
    /\ call.args.mirna_id \in DOMAIN miRNAs_ID.at \cup {""}
    /\ call.args.prec_id \in DOMAIN precursors_ID.at \cup {""}
    /\ call.args.range[1] >= 0
    /\ call.args.search_type \in {"up-downstream", "upstream", "downstream"}

\* C7 (as claimed): the window is [a-r, a+r] for up-downstream, [a, a+r]
\* for upstream and [a-r, a] for downstream, for a precursor anchor and for
\* a mature-product anchor alike.
C7_WindowMapping ==
    ClusterSearched
    => LET a == call.args
           r == a.range[1]
           coords == AnchorCoords(a)
           Window(s) == IF a.search_type = "up-downstream" THEN <<s - r, s + r>>
                        ELSE IF a.search_type = "upstream" THEN <<s, s + r>>
                        ELSE <<s - r, s>>
       IN  windows = [i \in DOMAIN coords |-> Window(coords[i][1])]

\* the store of the end-to-end example: three precursors of X at
\* (100, 200), (150, 250) and (500, 600), and the call on the first
C8_Example ==
    /\ ClusterReturned
    /\ call.args = [mirna_id |-> "", prec_id |-> "P1",
                    search_type |-> "up-downstream", range |-> <<100>>]
    /\ \A p \in {"P1", "P2", "P3"} : precursors_ID.at[p].organism = "X"
    /\ precursors_ID.at["P1"].genome_coordinates = << <<100, 200>> >>
    /\ precursors_ID.at["P2"].genome_coordinates = << <<150, 250>> >>
    /\ precursors_ID.at["P3"].genome_coordinates = << <<500, 600>> >>

\* C8 (as claimed): the result includes the second precursor and excludes
\* the third.
C8_IncludesSecond ==
    C8_Example => /\ ret.kind = "list"
                  /\ InSeq("P2", ret.value)
                  /\ ~InSeq("P3", ret.value)

\* C8 (amended): the window is [0, 200]; the result is the first precursor
\* alone, the second (150, 250) and the third (500, 600) are excluded.
C8_OnlyFirst ==
    C8_Example => /\ ret.kind = "list"
                  /\ ret.value = <<"P1">>
                  /\ windows = << <<0, 200>> >>

C8_Witness == C8_Example /\ ret.count = 1

\* C9 (as claimed): with range = 0 the result is exactly the precursors of
\* the anchor's organism that have an interval equal to the single-point
\* window (start, start), and no result when there is none.
C9_ZeroRange ==
    (ClusterSearched /\ call.args.range[1] = 0)
    => LET a == call.args
           coords == AnchorCoords(a)
           points == {<<coords[i][1], coords[i][1]>> : i \in DOMAIN coords}
           mates == {p \in DOMAIN precursors_ID.at :
                        /\ precursors_ID.at[p].organism = AnchorOrganism(a)
                        /\ Range(precursors_ID.at[p].genome_coordinates) \cap points # {}}
       IN  IF mates = {} THEN ret.kind = "None"
           ELSE ret.kind = "list" /\ Range(ret.value) = mates

MatureIds == DOMAIN miRNAs_ID.at \cup {v.ac : v \in LoadProducts}

\* C10: after any sequence of records, M is in P.miRNAs iff the MiRNA M
\* exists and its owning-precursor collection contains P's identifier.
C10_ReferentialIntegrity ==
    \A p \in DOMAIN precursors_ID.at : \A m \in MatureIds :
        InSeq(m, precursors_ID.at[p].miRNAs)
        <=> (m \in DOMAIN miRNAs_ID.at
             /\ InSeq(precursors_ID.at[p].ID, miRNAs_ID.at[m].precursors))

\* the second record repeats precursor P1 and brings a mature product, M2,
\* that the first record did not have
C10_Witness ==
    /\ n_records = 2
    /\ precursors_ID.keys = <<"P1">>
    /\ precursors_ID.at["P1"].miRNAs = <<"M1", "M2">>
    /\ miRNAs_ID.at["M2"].references = 2
    /\ miRNAs_ID.at["M1"].precursors = <<"P1", "P1">>

\* ------------------------------------------------------------------------
\* C11: after load_genome has processed any sequence of feature lines, with
\* unknown aliases, unknown or missing Derives_from and organisms without a
\* file, every precursor's chromosome, strand and genome_coordinates have
\* one length, and every MiRNA's chromosome and strand have the length of
\* the total number of intervals of its genome_coordinates map
\* ------------------------------------------------------------------------
CoordCount(gc) == SumLen([i \in DOMAIN gc.keys |-> gc.at[gc.keys[i]]])

C11_AlignedPlacements ==
    /\ \A p \in DOMAIN precursors_ID.at :
          /\ Len(precursors_ID.at[p].chromosome) = Len(precursors_ID.at[p].strand)
          /\ Len(precursors_ID.at[p].strand) = Len(precursors_ID.at[p].genome_coordinates)
    /\ \A m \in DOMAIN miRNAs_ID.at :
          /\ Len(miRNAs_ID.at[m].chromosome) = Len(miRNAs_ID.at[m].strand)
          /\ Len(miRNAs_ID.at[m].strand) = CoordCount(miRNAs_ID.at[m].genome_coordinates)

\* a file was skipped, a precursor is placed, and a MiRNA has intervals
\* under two precursors, one of them unknown
C11_Witness ==
    /\ g_org > 1
    /\ \E p \in DOMAIN precursors_ID.at : Len(precursors_ID.at[p].chromosome) >= 1
    /\ \E m \in DOMAIN miRNAs_ID.at :
          /\ Len(miRNAs_ID.at[m].genome_coordinates.keys) = 2
          /\ "P9" \in DOMAIN miRNAs_ID.at[m].genome_coordinates.at

\* ------------------------------------------------------------------------
\* C12: whenever construction has completed, each precursor's structure is
\* the structure map's entry for its identifier and its taxonomy is its
\* organism's path split on ";" without the trailing empty segment; no
\* constructed store has a precursor without structure or organism entry
\* ------------------------------------------------------------------------
\* the tree of the organism named n, as dict(zip(...)) keeps it
TreeOf(n) ==
    organisms[CHOOSE i \in DOMAIN organisms :
                 /\ organisms[i].name = n
                 /\ \A j \in DOMAIN organisms : organisms[j].name = n => j <= i].tree

WithoutTrailingEmpty(parts) ==
    IF parts # <<>> /\ parts[Len(parts)] = "" THEN SubSeq(parts, 1, Len(parts) - 1) ELSE parts

C12_MergedOnConstruction ==
    phase = "ready" =>
        \A p \in DOMAIN precursors_ID.at :
            /\ p \in DOMAIN structures
            /\ precursors_ID.at[p].structure = structures[p]
            /\ \E i \in DOMAIN organisms : organisms[i].name = precursors_ID.at[p].organism
            /\ precursors_ID.at[p].taxonomy =
                   WithoutTrailingEmpty(Split(TreeOf(precursors_ID.at[p].organism)))

\* constructed after a compile, with precursors of two organisms
C12_Witness ==
    /\ phase = "ready"
    /\ InSeq("compile_ok", log)
    /\ \E p, q \in DOMAIN precursors_ID.at :
          /\ precursors_ID.at[p].taxonomy = <<"A", "B">>
          /\ precursors_ID.at[q].taxonomy = <<"A", "C">>
          /\ precursors_ID.at[p].structure # precursors_ID.at[q].structure

\* ------------------------------------------------------------------------
\* C13: once the store's precursor of an identifier has high_confidence
\* true, the store's precursor of that identifier has it true in every
\* later state, through load_hc, the dumps, the reload and the merge
\* ------------------------------------------------------------------------
C13_HighConfMonotone ==
    [][\A p \in DOMAIN precursors_ID.at :
          precursors_ID.at[p].high_confidence =>
              /\ p \in DOMAIN precursors_ID'.at
              /\ precursors_ID'.at[p].high_confidence]_vars

\* ------------------------------------------------------------------------
\* C14: the snapshot load comes first; the compile runs only after a failed
\* load and at most once; after a compile the load is retried once; when
\* the compile or the retried load fails construction aborts and attempts
\* nothing more
\* ------------------------------------------------------------------------
AllowedAttempts ==
    { <<"load", "load_ok">>,
      <<"load", "load_failed", "compile", "compile_ok", "load", "load_ok">>,
      <<"load", "load_failed", "compile", "compile_ok", "load", "load_failed", "abort">>,
      <<"load", "load_failed", "compile", "compile_failed", "abort">> }

C14_LoadCompileRetry ==
    /\ \E a \in AllowedAttempts : Len(log) <= Len(a) /\ log = SubSeq(a, 1, Len(log))
    /\ phase = "aborted" <=> (log # <<>> /\ log[Len(log)] = "abort")
    /\ phase = "ready" <=> (log # <<>> /\ log[Len(log)] = "load_ok")

\* the retried load failed and construction aborted
C14_Witness ==
    /\ phase = "aborted"
    /\ log = <<"load", "load_failed", "compile", "compile_ok", "load", "load_failed", "abort">>

\* ------------------------------------------------------------------------
\* C15: the store obtained by loading the snapshot and merging has, for
\* every precursor and mature product, the identifiers, cross-links,
\* genomic placements, high-confidence flag, structure and taxonomy of the
\* store held in memory at the end of the compile that wrote the snapshot
\* ------------------------------------------------------------------------
SamePrecursor(a, b) ==
    /\ a.ID = b.ID /\ a.name = b.name /\ a.miRNAs = b.miRNAs
    /\ a.chromosome = b.chromosome /\ a.strand = b.strand
    /\ a.genome_coordinates = b.genome_coordinates
    /\ a.high_confidence = b.high_confidence
    /\ a.structure = b.structure
    /\ a.taxonomy = b.taxonomy

SameMature(a, b) ==
    /\ a.ID = b.ID /\ a.name = b.name /\ a.precursors = b.precursors
    /\ a.chromosome = b.chromosome /\ a.strand = b.strand
    /\ a.genome_coordinates = b.genome_coordinates

C15_ReloadEquivalent ==
    (phase = "ready" /\ InSeq("compile_ok", log)) =>
        /\ precursors_ID.keys = at_compile_end.precursors_ID.keys
        /\ miRNAs_ID.keys = at_compile_end.miRNAs_ID.keys
        /\ \A p \in DOMAIN precursors_ID.at :
               SamePrecursor(precursors_ID.at[p], at_compile_end.precursors_ID.at[p])
        /\ \A m \in DOMAIN miRNAs_ID.at :
               SameMature(miRNAs_ID.at[m], at_compile_end.miRNAs_ID.at[m])

\* ------------------------------------------------------------------------
\* load_miRNA reading the feature table of a record
\* ------------------------------------------------------------------------
\* the lines of miRNA.dat from the record's first FT line on. blocks gives
\* each product's qualifier arrangement: "not_experimental", "one_line",
\* "multi_line" (an experiment on two lines) or "bare" (experimental and no
\* experiment line). xx: the blank XX line stands before SQ. rest: the
\* record that follows in the file
FtLines(blocks, xx, rest) ==
    LET L(k, v, closed) == [k |-> k, v |-> v, closed |-> closed]
        B(i) == << L("range", <<2 * i - 1, 2 * i>>, TRUE),
                   L("accession", <<"M", i>>, TRUE),
                   L("product", <<"miR", i>>, TRUE),
                   L("evidence", IF blocks[i] = "not_experimental"
                                 THEN "not_experimental" ELSE "experimental", TRUE) >>
                \o (IF blocks[i] = "one_line" THEN << L("experiment", "cloned", TRUE) >>
                    ELSE IF blocks[i] = "multi_line"
                    THEN << L("experiment", "cloned", FALSE), L("text", "Northern", TRUE) >>
                    ELSE <<>>)
        RECURSIVE T(_)
        T(i) == IF i > Len(blocks) THEN <<>> ELSE B(i) \o T(i + 1)
    IN  T(1) \o (IF xx THEN << L("XX", "", TRUE) >> ELSE <<>>)
             \o << L("SQ", "", TRUE), L("  ", "ugac", TRUE), L("//", "", TRUE) >>
             \o rest

FtFiles ==
    LET blocks == UNION {[1..n -> {"not_experimental", "one_line", "multi_line", "bare"}]
                            : n \in 0..MaxProducts}
    IN  {[blocks |-> b, lines |-> FtLines(b, xx, rest)] :
            b \in blocks, xx \in BOOLEAN,
            rest \in {<<>>, << [k |-> "ID", v |-> "", closed |-> TRUE],
                               [k |-> "AC", v |-> "", closed |-> TRUE],
                               [k |-> "DE", v |-> "", closed |-> TRUE] >>
                            \o FtLines(<<"one_line">>, TRUE, <<>>)}}

\* the `while not line.startswith("FT")` loop (1436-1440) has stopped at
\* the first line of the file's lines; products = [] (1441)
InitParse ==
    /\ StoreIs(load_organisms(EmptyStore, OrganismLines))
    /\ phase = "parsing"
    /\ n_records = 0
    /\ NoQuery
    /\ NoGenome
    /\ NoBuild
    /\ \E f \in FtFiles : ft = [file |-> f, line |-> 1, products |-> <<>>]

FtLine ==
    /\ phase = "parsing"
    /\ ft.file.lines[ft.line].k # "SQ"
    /\ LET t == ft_step(ft.file.lines, ft.line, ft.products)
       IN  /\ ft' = [ft EXCEPT !.line = t.line, !.products = t.products]
           /\ phase' = IF t.raised THEN "failed" ELSE "parsing"
    /\ UNCHANGED <<storeVars, n_records, queryVars, genomeVars, buildVars>>

\* the loop has met a line that starts with SQ: products is complete
FtEnd ==
    /\ phase = "parsing"
    /\ ft.file.lines[ft.line].k = "SQ"
    /\ phase' = "parsed"
    /\ UNCHANGED <<storeVars, n_records, queryVars, auxVars>>

NextParse == FtLine \/ FtEnd

SpecParse == InitParse /\ [][NextParse]_vars

\* ------------------------------------------------------------------------
\* C16: a query call changes nothing in the store. Whatever query runs on
\* the constructed facade, with whatever arguments and whether it returns a
\* result, nothing or an exception, every attribute of the store is after
\* the call what it was before.
\* ------------------------------------------------------------------------
C16_QueriesLeaveStore == [][storeVars' = storeVars]_vars

\* a query returned its result and the store is the constructed one
C16_Witness ==
    /\ phase = "ready" /\ pc = "returned"
    /\ call.op = "get_tree" /\ call.args = << <<"A", "B">> >>
    /\ ret.kind = "dict"
    /\ \E g \in GenomeFiles : StoreIs(BuildStore(g))

\* ------------------------------------------------------------------------
\* C17: get_tree called with the full taxonomy path of an organism O
\* returns the node of that path, whose "!organism" list holds O exactly
\* once and is the sorted list of the names of the organisms with that
\* same path; called with a path that follows no organism's path it
\* returns no result.
\* ------------------------------------------------------------------------
PathOf(o) == Split(RStrip(o.tree))

C17_TreeSlice ==
    (pc = "returned" /\ call.op = "get_tree" /\ call.args # <<>>) =>
        LET q == call.args[1]
            same == {i \in DOMAIN organisms : PathOf(organisms[i]) = q}
            follows == \E i \in DOMAIN organisms :
                           /\ Len(q) <= Len(PathOf(organisms[i]))
                           /\ SubSeq(PathOf(organisms[i]), 1, Len(q)) = q
            rank(n) == CHOOSE r \in DOMAIN NameOrder : NameOrder[r] = n
        IN  /\ same # {} =>
                  /\ ret.kind = "dict"
                  /\ <<>> \in DOMAIN ret.value.organism
                  /\ LET l == ret.value.organism[<<>>]
                     IN  /\ \A i \in same :
                                Cardinality({k \in DOMAIN l : l[k] = organisms[i].name}) = 1
                         /\ Range(l) = {organisms[i].name : i \in same}
                         /\ \A j, k \in DOMAIN l : j < k => rank(l[j]) < rank(l[k])
            /\ ~follows => ret.kind = "None"

\* the slice at A;B, the path of X and of Xa (loaded in the order X, Xa),
\* was returned with both names
C17_Witness ==
    /\ pc = "returned" /\ call.op = "get_tree" /\ call.args = << <<"A", "B">> >>
    /\ ret.kind = "dict"
    /\ ret.value.organism[<<>>] = <<"X", "Xa">>

\* ------------------------------------------------------------------------
\* C18: get_structure called with a list of precursor identifiers returns
\* a mapping that holds, for every identifier of the list that is in the
\* store, that precursor's structure; an identifier that is not in the
\* store takes no entry of the others away.
\* ------------------------------------------------------------------------
C18_KnownIdsKept ==
    (pc = "returned" /\ call.op = "get_structure") =>
        \A i \in DOMAIN call.args.id :
            call.args.id[i] \in DOMAIN precursors_ID.at =>
                /\ ret.kind = "dict"
                /\ \E k \in DOMAIN ret.value.ids :
                       ret.value.ids[k] = <<call.args.id[i],
                                            precursors_ID.at[call.args.id[i]].structure>>

\* ------------------------------------------------------------------------
\* C19: a lookup by a single key that matches nothing returns no result
\* and does not raise: get_organisms_short, get_taxid and get_tax_level
\* called with a name that is the full name of no organism, get_organism
\* called with a level that is on no organism's taxonomy path.
\* ------------------------------------------------------------------------
C19_NoMatchNoResult ==
    pc = "returned" =>
        /\ (call.op \in {"get_tax_level", "get_taxid", "get_organisms_short"}
              /\ call.args = <<"Q">>) => ret.kind = "None"
        /\ (call.op = "get_organism" /\ call.args = "Z") => ret.kind = "None"

\* ------------------------------------------------------------------------
\* C20: when the parser has read the feature table of a record, it holds
\* one product for every position-range line of the table, and each
\* product is exactly its start, end, identifier, name, evidence tag and
\* one experiment value, whichever way the qualifier lines are arranged:
\* evidence not experimental, a one-line experiment, a multi-line
\* experiment, or experimental with the next position-range line or the
\* sequence block directly after it.
\* ------------------------------------------------------------------------
C20_OneProductPerRange ==
    phase = "parsed" =>
        LET blocks == ft.file.blocks
            experiment(b) == IF b = "not_experimental" THEN <<"-">>
                             ELSE IF b = "one_line" THEN <<"cloned">>
                             ELSE IF b = "multi_line" THEN <<"cloned", "Northern">>
                             ELSE <<>>
        IN  /\ Len(ft.products) = Len(blocks)
            /\ \A i \in DOMAIN blocks :
                   ft.products[i] =
                       << 2 * i - 1, 2 * i, <<"M", i>>, <<"miR", i>>,
                          IF blocks[i] = "not_experimental" THEN "not_experimental"
                          ELSE "experimental",
                          experiment(blocks[i]) >>

\* ------------------------------------------------------------------------
\* Properties of the record loop of load_miRNA (SpecLoad)
\* ------------------------------------------------------------------------
\* what the processing of rec leaves in the store whatever was there: its
\* precursor, the identifiers of its products in the precursor's product
\* list, and a MiRNA for each of them that has the precursor as an owner
Leaves(rec) ==
    /\ rec.id_p \in DOMAIN precursors_ID'.at
    /\ \A i \in DOMAIN rec.products :
          /\ InSeq(rec.products[i].ac, precursors_ID'.at[rec.id_p].miRNAs)
          /\ rec.products[i].ac \in DOMAIN miRNAs_ID'.at
          /\ InSeq(rec.id_p, miRNAs_ID'.at[rec.products[i].ac].precursors)
          /\ InSeq(<<rec.products[i].start, rec.products[i].end>>,
                   miRNAs_ID'.at[rec.products[i].ac].mature_positions)

\* the step taken is the processing of record rec
Processed(rec) ==
    Leaves(rec) /\ RecordLoadable(Store, rec) /\ Store' = load_record(Store, rec)

\* how many products of rec have the mature identifier m
Encounters(rec, m) == Cardinality({i \in DOMAIN rec.products : rec.products[i].ac = m})

\* C21: after any sequence of records, the owning-precursor, position,
\* evidence, experiment, arm-end and mature-sequence lists of every MiRNA
\* have one and the same length, the number of times the mature identifier
\* was met: every record adds to each of the six lists of M one element
\* per product of the record that carries M's identifier.
C21_AlignedCollections ==
    [][\A rec \in LoadRecords : Processed(rec) =>
          \A m \in DOMAIN miRNAs_ID'.at :
              LET before == IF m \in DOMAIN miRNAs_ID.at
                            THEN Len(miRNAs_ID.at[m].precursors) ELSE 0
                  n == before + Encounters(rec, m)
                  M == miRNAs_ID'.at[m]
              IN  /\ n > 0
                  /\ Len(M.precursors) = n /\ Len(M.mature_positions) = n
                  /\ Len(M.evidence) = n /\ Len(M.experiment) = n
                  /\ Len(M.end) = n /\ Len(M.mature_sequence) = n]_vars

\* M1 was met three times, twice in one record at the same positions
C21_Witness ==
    /\ n_records = 2
    /\ "M1" \in DOMAIN miRNAs_ID.at
    /\ miRNAs_ID.at["M1"].precursors = <<"P1", "P1", "P2">>
    /\ miRNAs_ID.at["M1"].mature_positions = << <<1, 2>>, <<1, 2>>, <<1, 2>> >>
    /\ Len(miRNAs_ID.at["M1"].mature_sequence) = 3

\* C22: when a record with the reference numbers R brings a mature
\* identifier that the store already holds, then after the record every
\* number of R is in that MiRNA's references, no number that was there is
\* there a second time, and nothing but numbers of R was added; for R
\* empty, of one number and of several.
C22_ReferencesMerged ==
    [][\A rec \in LoadRecords : Processed(rec) =>
          \A i \in DOMAIN rec.products :
              rec.products[i].ac \in DOMAIN miRNAs_ID.at =>
                  LET m == rec.products[i].ac
                      old == ref_heap[miRNAs_ID.at[m].references]
                      new == ref_heap'[miRNAs_ID'.at[m].references]
                      times(x, l) == Cardinality({k \in DOMAIN l : l[k] = x})
                  IN  /\ Range(rec.ref) \subseteq Range(new)
                      /\ Range(new) \subseteq Range(old) \cup Range(rec.ref)
                      /\ \A x \in Range(new) :
                             times(x, new) = IF x \in Range(old) THEN times(x, old) ELSE 1]_vars

\* C23 (as claimed): after any sequence of records, for every precursor P
\* of the precursor map, P's name is a key of the name map and the
\* identifier found there is P's own.
C23_NameRoundTrip ==
    \A p \in DOMAIN precursors_ID.at :
        /\ precursors_ID.at[p].name \in DOMAIN precursors_name
        /\ precursors_name[precursors_ID.at[p].name] = p

\* C23 (amended): the name map holds, under P's name, the identifier of a
\* precursor of the map that bears this name; it is P's own whenever no
\* other precursor of the map bears the name.
C23_NameRoundTripUnique ==
    \A p \in DOMAIN precursors_ID.at :
        LET n == precursors_ID.at[p].name
        IN  /\ n \in DOMAIN precursors_name
            /\ precursors_name[n] \in DOMAIN precursors_ID.at
            /\ precursors_ID.at[precursors_name[n]].name = n
            /\ (\A q \in DOMAIN precursors_ID.at : precursors_ID.at[q].name = n => q = p)
                  => precursors_ID.at[precursors_name[n]] = precursors_ID.at[p]

\* two records have registered two precursors with different names
C23_Witness ==
    /\ n_records = 2
    /\ precursors_ID.keys = <<"P1", "P2">>
    /\ precursors_ID.at["P1"].name # precursors_ID.at["P2"].name
    /\ precursors_name[precursors_ID.at["P2"].name] = "P2"

\* C26: processing a record for precursor Q leaves as it was the reference
\* list of every precursor with another identifier that an earlier record
\* created, and the reference list of every MiRNA whose identifier is not
\* among the products of Q's record.
C26_OtherReferencesKept ==
    [][\A rec \in LoadRecords : Processed(rec) =>
          /\ \A p \in DOMAIN precursors_ID.at \ {rec.id_p} :
                 ref_heap'[precursors_ID'.at[p].references]
                     = ref_heap[precursors_ID.at[p].references]
          /\ \A m \in DOMAIN miRNAs_ID.at :
                 Encounters(rec, m) = 0 =>
                     ref_heap'[miRNAs_ID'.at[m].references]
                         = ref_heap[miRNAs_ID.at[m].references]]_vars

\* C29 (as claimed): after any sequence of records, every name in the name
\* list of a MiRNA M is a key of the mature-name map and resolves to a
\* MiRNA of the store, to M itself when no other MiRNA bears the name.
C29_NamesResolve ==
    \A m \in DOMAIN miRNAs_ID.at :
        \A i \in DOMAIN miRNAs_ID.at[m].name :
            LET n == miRNAs_ID.at[m].name[i]
            IN  /\ n \in DOMAIN matures_name
                /\ matures_name[n] \in DOMAIN miRNAs_ID.at
                /\ (\A o \in DOMAIN miRNAs_ID.at : InSeq(n, miRNAs_ID.at[o].name) => o = m)
                      => matures_name[n] = m

\* ------------------------------------------------------------------------
\* C24: find_cluster is inclusive on both ends of its window. In every
\* mode, a precursor of the anchor's organism with an interval
\* (f_start, f_stop), window_start <= f_start <= f_stop <= window_end for
\* a window the call searched, is in the result, also when the interval
\* touches or lies on a boundary of the window.
\* ------------------------------------------------------------------------
C24_InclusiveWindow ==
    ClusterSearched =>
        \A p \in DOMAIN precursors_ID.at :
            (/\ precursors_ID.at[p].organism = AnchorOrganism(call.args)
             /\ \E w \in DOMAIN windows :
                 \E i \in DOMAIN precursors_ID.at[p].genome_coordinates :
                    LET coord == precursors_ID.at[p].genome_coordinates[i]
                    IN  /\ windows[w][1] <= coord[1]
                        /\ coord[1] <= coord[2]
                        /\ coord[2] <= windows[w][2])
            => (ret.kind = "list" /\ InSeq(p, ret.value))

\* ------------------------------------------------------------------------
\* C25: a compile that follows a first load which failed after it had read
\* some of the snapshot files leaves, in memory and in the files it writes,
\* what a compile from an empty store leaves: no organism is twice in the
\* organism list, and no list of a precursor or a MiRNA is longer than
\* after the compile from the empty store.
\* ------------------------------------------------------------------------
C25_CompileAsFromEmpty ==
    phase = "compiled" =>
        LET fresh == compile_indexes([st |-> EmptyStore, disk |-> EmptyDisk, ok |-> TRUE], remote)
        IN  /\ \A i, j \in DOMAIN organisms : organisms[i] = organisms[j] => i = j
            /\ Store = fresh.st
            /\ disk.at = fresh.disk.at


\* ------------------------------------------------------------------------
\* Properties of the genomic chain and of the returned lists (SpecSearch)
\* ------------------------------------------------------------------------
\* the genome placements of an entity: the i-th chromosome, the i-th strand
\* and the i-th interval load_genome appended
PlacementsOf(x) ==
    LET e == EntityAt(x)
        coords == IF call.op = "get_precursor" THEN e.genome_coordinates
                  ELSE FlatCoords(e.genome_coordinates.keys, e.genome_coordinates.at)
    IN  {[chr |-> e.chromosome[i], strand |-> e.strand[i], iv |-> coords[i]] :
            i \in DOMAIN e.chromosome \cap DOMAIN e.strand \cap DOMAIN coords}

\* a placement meets every genomic criterion the call supplies
PlacementMeets(pl, a) ==
    /\ a.chr # "" => pl.chr = a.chr
    /\ a.strand # "" => pl.strand = a.strand
    /\ (a.start # <<>> /\ a.end # <<>>) =>
          /\ a.start[1] <= pl.iv[1] /\ pl.iv[1] < a.end[1]
          /\ a.start[1] < pl.iv[2] /\ pl.iv[2] <= a.end[1]
    /\ (a.start # <<>> /\ a.end = <<>>) => a.start[1] <= pl.iv[1]
    /\ (a.start = <<>> /\ a.end # <<>>) => a.end[1] >= pl.iv[2]

\* C27 (as claimed): every entity of a genomic-search result has a single
\* genome placement whose chromosome, strand and interval together satisfy
\* all the chromosome, strand and coordinate criteria of the call, also when
\* the entity has several placements.
C27_OnePlacementMeetsAll ==
    (SearchReturned /\ ~aborted /\ "genomic-search" \in BucketKeys)
    => \A x \in Range(dict_result[BucketOf("genomic-search")][2]) :
          \E pl \in PlacementsOf(x) : PlacementMeets(pl, call.args)


\* C28 (as claimed): every list get_precursor or get_mirna returns, the
\* single list or each bucket of a mapping, holds each entity at most once,
\* also for an identity list that repeats an identifier and for a
\* reverse-lookup list whose identifiers resolve to the same entity.
C28_NoEntityTwice ==
    (SearchReturned /\ ret.kind # "None")
    => LET lists == IF ret.kind = "list" THEN <<ret.value>>
                    ELSE [i \in DOMAIN ret.value |-> ret.value[i][2]]
       IN  \A k \in DOMAIN lists :
              \A i, j \in DOMAIN lists[k] : lists[k][i] = lists[k][j] => i = j


\* ------------------------------------------------------------------------
\* Properties of the counts reported with a result (SpecQuery)
\* ------------------------------------------------------------------------
ListQueries == {"get_organism", "get_precursor", "get_mirna", "find_cluster", "high_conf"}

\* the number of entities in a returned value: the length of a list, the
\* sum of the lengths of the buckets of a mapping, the size of the list
\* high_conf builds from a set
EntitiesIn(r) ==
    IF call.op = "high_conf" THEN Cardinality(r.value)
    ELSE IF r.kind = "list" THEN Len(r.value)
    ELSE SumLen([i \in DOMAIN r.value |-> r.value[i][2]])

\* C30 (as claimed): for every list-returning query (get_organism,
\* get_precursor, get_mirna, find_cluster, high_conf) the count reported
\* with the result is the number of entities in the returned list, for a
\* mapping the sum of the lengths of its buckets, also for high_conf on
\* mature products with more than one high-confidence owning precursor.
C30_CountIsLength ==
    (pc = "returned" /\ call.op \in ListQueries /\ ret.kind \in {"list", "dict"})
    => ret.count = EntitiesIn(ret)

====
